---- MODULE Spec2Model ----
(***************************************************************************)
(* Puzzle simulation core of bevy-jam-3: face grids, movable-rod toggle,   *)
(* climber state machine, pylon pools and level completion.                *)
(*                                                                         *)
(* Lengths are integers in units of 0.025 world units, so that every f32   *)
(* constant of src/src/assets.rs and the 0.05 fall step are whole numbers  *)
(* (TILE_SIZE 0.5 = 20 units, fall step 0.05 = 2 units).                   *)
(***************************************************************************)
EXTENDS Integers, Sequences, FiniteSets, TLC

VARIABLES
    level_name,        \* name of the LevelData that was spawned
    faces,             \* Face components, by face entity <<pillar, direction>>
    rods,              \* MovableRod components, by rod index
    rod_progress_done, \* rod animator: tweenable().progress() >= 1.0
    climbers,          \* Climber components + Transform + animator, by index
    pillars,           \* Pillar components (unpowered pylon pools)
    pylons,            \* Pylon components
    level_completion,  \* LevelCompletion resource
    game_state,        \* GameState, as last set through NextState
    climber_events,    \* ClimberEvent::ReachedTop events sent and not yet read
    win_pylons,        \* number of WinPylon entities of the level
    crashed,           \* "no", or the panic that ended the program
    before_toggle,     \* history: per rod, its state before its last accepted toggle
    last               \* history: the system that ran last and on what

vars == <<level_name, faces, rods, rod_progress_done, climbers, pillars, pylons,
          level_completion, game_state, climber_events, win_pylons, crashed,
          before_toggle, last>>

----------------------------------------------------------------------------
(* Constants of src/src/assets.rs, in units of 0.025 *)

TILE_SIZE == 20
HALF_TILE_SIZE == TILE_SIZE \div 2
VISIBLE_ROD_LENGTH == 40
HALF_VISIBLE_ROD_LENGTH == VISIBLE_ROD_LENGTH \div 2
ROD_WIDTH == (8 * TILE_SIZE) \div 10
HALF_ROD_WIDTH == ROD_WIDTH \div 2
CLIMBER_RADIUS == 6
CLIMBER_LEVITATE_DISTANCE == CLIMBER_RADIUS \div 2
FALL_STEP == 2

(* Height of the generated three-column pillars *)
PillarH == 3

(* Number of pylons of the pillar the pylon allocator is applied to *)
MaxPylons == 3

----------------------------------------------------------------------------
(* Level data (src/src/data.rs) *)

FaceDirections == {"West", "North", "East", "South"}

get_opposite(dir) ==
    CASE dir = "West" -> "East"
      [] dir = "North" -> "South"
      [] dir = "East" -> "West"
      [] dir = "South" -> "North"

TileData(i, j, kind) == [i |-> i, j |-> j, kind |-> kind]
ClimberData(i, j) == [tile_i |-> i, tile_j |-> j]
FaceData(tiles, cl) == [tiles |-> tiles, climbers |-> cl]
PillarData(w, h, fw, fe) ==
    [x |-> 0, z |-> 0, w |-> w, h |-> h, faces |-> [West |-> fw, East |-> fe]]

level_1 ==
    [name |-> "I",
     pillars |-> <<PillarData(5, 7,
        FaceData(<<TileData(1, 3, "StaticRod"), TileData(4, 6, "StaticRod")>>,
                 <<ClimberData(1, 3)>>),
        FaceData(<<TileData(2, 4, "MovableRod"), TileData(3, 5, "MovableRod")>>,
                 <<>>))>>]

(* Column of the static staircase at row j of a three-column pillar: the
   search policy goes 0, 1, 2 and then alternates 1, 2 *)
StairCol(j) == IF j <= 2 THEN j ELSE IF j % 2 = 1 THEN 1 ELSE 2

RECURSIVE Stairs(_, _)
Stairs(from, h) ==
    IF from >= h THEN <<>>
    ELSE <<TileData(StairCol(from), from, "StaticRod")>> \o Stairs(from + 1, h)

(* One climber, a movable rod on its path and a movable rod on the other
   face that can catch it *)
level_toggle ==
    [name |-> "toggle",
     pillars |-> <<PillarData(3, PillarH,
        FaceData(<<TileData(0, 0, "StaticRod"), TileData(1, 1, "MovableRod")>>
                    \o Stairs(2, PillarH),
                 <<ClimberData(0, 0)>>),
        FaceData(<<TileData(1, 0, "MovableRod")>>, <<>>))>>]

(* Two climbers of one face whose first moves have the same target, on a
   movable rod, and a tile with both candidates grounded *)
level_pair ==
    [name |-> "pair",
     pillars |-> <<PillarData(3, PillarH,
        FaceData(<<TileData(0, 0, "StaticRod"), TileData(2, 0, "StaticRod"),
                   TileData(1, 1, "MovableRod"), TileData(0, 2, "StaticRod")>>
                    \o Stairs(2, PillarH),
                 <<ClimberData(0, 0), ClimberData(2, 0)>>),
        FaceData(<<>>, <<>>))>>]

(* Two pillars: the first with a climber on each face, the second with one *)
level_two_pillars ==
    [name |-> "two_pillars",
     pillars |-> <<
        PillarData(3, PillarH,
            FaceData(Stairs(0, PillarH), <<ClimberData(0, 0)>>),
            FaceData(Stairs(0, PillarH), <<ClimberData(0, 0)>>)),
        PillarData(3, PillarH,
            FaceData(Stairs(0, PillarH), <<ClimberData(0, 0)>>),
            FaceData(<<>>, <<>>))>>]

(* Two climbers in one column, the upper one on a movable rod, neither with
   a tile to move to *)
level_landing ==
    [name |-> "landing",
     pillars |-> <<PillarData(3, PillarH,
        FaceData(<<TileData(1, 0, "StaticRod"), TileData(1, 1, "MovableRod")>>,
                 <<ClimberData(1, 0), ClimberData(1, 1)>>),
        FaceData(<<>>, <<>>))>>]

Levels == {level_1, level_toggle, level_pair, level_two_pillars, level_landing}

(* GameLevels: the level builders in their order, the index of the current
   one (from 1) and advance_level *)
level_builders == <<level_1, level_toggle, level_pair, level_two_pillars, level_landing>>

current_level_idx(name) == CHOOSE k \in DOMAIN level_builders : level_builders[k].name = name

advance_level(idx) == (idx % Len(level_builders)) + 1

----------------------------------------------------------------------------
(* Tiles and faces (src/src/logic/face.rs, TileType as used by
   src/src/logic/level.rs and src/src/logic/rod.rs: the non-Void variants
   carry the occupied flag) *)

Void == [kind |-> "Void", occupied |-> FALSE]
StaticRod(occupied) == [kind |-> "StaticRod", occupied |-> occupied]
MovableRod(occupied) == [kind |-> "MovableRod", occupied |-> occupied]

Factor(dir) == IF dir \in {"West", "South"} THEN -1 ELSE 1

(* f32::trunc and f32::round of a / b for b > 0, then `as u16` (saturating) *)
Trunc(a, b) == IF a >= 0 THEN a \div b ELSE -((-a) \div b)
Round(a, b) == IF a >= 0 THEN (2 * a + b) \div (2 * b) ELSE -((2 * (-a) + b) \div (2 * b))
AsU16(n) == IF n < 0 THEN 0 ELSE IF n > 65535 THEN 65535 ELSE n

is_valid(face, i, j) == i < face.size.w /\ j < face.size.h

(* Variant: only static rods count as ground *)
has_ground_on_tile_StaticOnly(face, i, j) ==
    IF ~is_valid(face, i, j) THEN FALSE
    ELSE face.tiles[<<i, j>>].kind = "StaticRod"

has_ground_on_tile(face, i, j) ==
    IF ~is_valid(face, i, j) THEN FALSE
    ELSE face.tiles[<<i, j>>] # Void

climber_get_pos_from_tile(face, pos) ==
    LET factor == Factor(face.direction)
        y == face.origin.y + pos.j * TILE_SIZE + TILE_SIZE
                + CLIMBER_RADIUS + CLIMBER_LEVITATE_DISTANCE
        horizontal_delta == pos.i * TILE_SIZE + HALF_TILE_SIZE
    IN  IF face.direction \in {"West", "East"}
        THEN [x |-> face.origin.x + factor * HALF_VISIBLE_ROD_LENGTH,
              y |-> y,
              z |-> face.origin.z + horizontal_delta]
        ELSE [x |-> face.origin.x + horizontal_delta,
              y |-> y,
              z |-> face.origin.z + factor * HALF_VISIBLE_ROD_LENGTH]

(* Variant: the decreasing column is tried first *)
get_next_tile_with_ground_BackFirst(face, tile) ==
    LET next_tile_1 == [face |-> tile.face, i |-> tile.i + 1, j |-> tile.j + 1]
        next_tile_2 == [face |-> tile.face, i |-> tile.i - 1, j |-> tile.j + 1]
    IN  IF tile.i > 0 /\ has_ground_on_tile(face, next_tile_2.i, next_tile_2.j)
        THEN <<next_tile_2>>
        ELSE IF has_ground_on_tile(face, next_tile_1.i, next_tile_1.j)
        THEN <<next_tile_1>>
        ELSE <<>>

(* Variant: the first candidate is returned without a look at the grid *)
get_next_tile_with_ground_Unchecked(face, tile) ==
    <<[face |-> tile.face, i |-> tile.i + 1, j |-> tile.j + 1]>>

(* Variant: the tile right above is tried first *)
get_next_tile_with_ground_Above(face, tile) ==
    LET next_tile_0 == [face |-> tile.face, i |-> tile.i, j |-> tile.j + 1]
        next_tile_1 == [face |-> tile.face, i |-> tile.i + 1, j |-> tile.j + 1]
        next_tile_2 == [face |-> tile.face, i |-> tile.i - 1, j |-> tile.j + 1]
    IN  IF has_ground_on_tile(face, next_tile_0.i, next_tile_0.j)
        THEN <<next_tile_0>>
        ELSE IF has_ground_on_tile(face, next_tile_1.i, next_tile_1.j)
        THEN <<next_tile_1>>
        ELSE IF tile.i > 0 /\ has_ground_on_tile(face, next_tile_2.i, next_tile_2.j)
        THEN <<next_tile_2>>
        ELSE <<>>

get_next_tile_with_ground(face, tile) ==
    LET next_tile_1 == [face |-> tile.face, i |-> tile.i + 1, j |-> tile.j + 1]
        next_tile_2 == [face |-> tile.face, i |-> tile.i - 1, j |-> tile.j + 1]
    IN  IF has_ground_on_tile(face, next_tile_1.i, next_tile_1.j)
        THEN <<next_tile_1>>
        ELSE IF tile.i > 0 /\ has_ground_on_tile(face, next_tile_2.i, next_tile_2.j)
        THEN <<next_tile_2>>
        ELSE <<>>

(* Variant: the tile is not cleared *)
remove_tile_at_Kept(face, pos) == face

remove_tile_at(face, pos) ==
    [face EXCEPT !.tiles[<<pos.i, pos.j>>] = Void]

(* Variant: the whole row of the coordinate is written *)
set_tile_at_Row(face, pos, tile_type) ==
    [face EXCEPT !.tiles = [t \in DOMAIN face.tiles |->
                                IF t[2] = pos.j THEN tile_type ELSE face.tiles[t]]]

set_tile_at(face, pos, tile_type) ==
    [face EXCEPT !.tiles[<<pos.i, pos.j>>] = tile_type]

get_tile_coords_from_pos(face, translation) ==
    LET relative == [x |-> translation.x - face.origin.x,
                     y |-> translation.y - face.origin.y,
                     z |-> translation.z - face.origin.z]
        j == AsU16(Round(relative.y, TILE_SIZE))
        i == IF face.direction \in {"West", "East"}
             THEN AsU16(Trunc(relative.z, TILE_SIZE))
             ELSE AsU16(Trunc(relative.x, TILE_SIZE))
    IN  <<i, j>>

(* Face operations that src/src/logic/climber.rs calls and that
   src/src/logic/face.rs does not hold: the occupied flag is set on arrival
   and cleared on departure, and the search policy is the one of
   get_next_tile_with_ground *)
(* Variant: every tile with ground is rewritten as a movable rod *)
WithOccupied_AsMovableRod(tile_type, occupied) ==
    IF tile_type.kind = "Void" THEN Void ELSE MovableRod(occupied)

WithOccupied(tile_type, occupied) ==
    IF tile_type.kind = "Void" THEN Void
    ELSE [tile_type EXCEPT !.occupied = occupied]

set_free(face, pos) ==
    [face EXCEPT !.tiles[<<pos.i, pos.j>>] = WithOccupied(@, FALSE)]

set_occupied(face, pos) ==
    [face EXCEPT !.tiles[<<pos.i, pos.j>>] = WithOccupied(@, TRUE)]

get_next_free_tile_with_ground(face, tile) == get_next_tile_with_ground(face, tile)

----------------------------------------------------------------------------
(* spawn_level (src/src/logic/level.rs).  The faces of a pillar are visited
   West then East; climbers, rods and pylons are numbered in spawn order, and
   the pylon spawned with climber k is pylon k. *)

FaceOrder == <<"West", "East">>

pillar_half_width(pd) == (pd.w * TILE_SIZE) \div 2

RECURSIVE PlaceTiles(_, _)
PlaceTiles(face_tiles, tiles) ==
    IF tiles = <<>> THEN face_tiles
    ELSE LET tile == Head(tiles)
         IN  PlaceTiles(
                [face_tiles EXCEPT ![<<tile.i, tile.j>>] =
                    IF tile.kind = "StaticRod" THEN StaticRod(FALSE) ELSE MovableRod(FALSE)],
                Tail(tiles))

RECURSIVE OccupySpawnTiles(_, _)
OccupySpawnTiles(face_tiles, cl) ==
    IF cl = <<>> THEN face_tiles
    ELSE LET climber == Head(cl)
         IN  OccupySpawnTiles(
                [face_tiles EXCEPT ![<<climber.tile_i, climber.tile_j>>] =
                    WithOccupied(@, TRUE)],
                Tail(cl))

SpawnFace(pd, dir) ==
    LET face == pd.faces[dir]
        col == [c \in (0 .. pd.w - 1) \X (0 .. pd.h - 1) |-> Void]
    IN  [direction |-> dir,
         size |-> [w |-> pd.w, h |-> pd.h],
         origin |-> [x |-> pd.x + Factor(dir) * pillar_half_width(pd),
                     y |-> 0,
                     z |-> pd.z - pillar_half_width(pd)],
         tiles |-> OccupySpawnTiles(PlaceTiles(col, face.tiles), face.climbers)]

SpawnFaces(ld) ==
    [f \in (1 .. Len(ld.pillars)) \X {"West", "East"} |->
        SpawnFace(ld.pillars[f[1]], f[2])]

spawn_movable_rod(face, opposite_face, tile_pos) ==
    [face |-> face, opposite_face |-> opposite_face, position |-> tile_pos]

RECURSIVE RodsOfTiles(_, _, _)
RodsOfTiles(p, dir, tiles) ==
    IF tiles = <<>> THEN <<>>
    ELSE (IF Head(tiles).kind = "MovableRod"
          THEN <<spawn_movable_rod(<<p, dir>>, <<p, get_opposite(dir)>>,
                                   [i |-> Head(tiles).i, j |-> Head(tiles).j])>>
          ELSE <<>>)
         \o RodsOfTiles(p, dir, Tail(tiles))

spawn_climber(face_entity, pillar_entity, climber_data, x, y, z) ==
    [state |-> "Waiting",
     face |-> face_entity, i |-> climber_data.tile_i, j |-> climber_data.tile_j,
     current_pillar |-> pillar_entity,
     translation |-> [x |-> x, y |-> y, z |-> z],
     progress_done |-> TRUE,
     lost_signals |-> 0]

RECURSIVE ClimbersOfFace(_, _, _, _)
ClimbersOfFace(p, pd, dir, cl) ==
    IF cl = <<>> THEN <<>>
    ELSE LET climber == Head(cl)
         IN  <<spawn_climber(<<p, dir>>, p, climber,
                    Factor(dir) * (HALF_VISIBLE_ROD_LENGTH + pillar_half_width(pd)),
                    climber.tile_j * TILE_SIZE + HALF_TILE_SIZE + HALF_ROD_WIDTH
                        + CLIMBER_RADIUS + CLIMBER_LEVITATE_DISTANCE,
                    climber.tile_i * TILE_SIZE - pillar_half_width(pd) + HALF_TILE_SIZE)>>
             \o ClimbersOfFace(p, pd, dir, Tail(cl))

RECURSIVE SpawnRods(_, _)
SpawnRods(ld, p) ==
    IF p > Len(ld.pillars) THEN <<>>
    ELSE RodsOfTiles(p, FaceOrder[1], ld.pillars[p].faces[FaceOrder[1]].tiles)
         \o RodsOfTiles(p, FaceOrder[2], ld.pillars[p].faces[FaceOrder[2]].tiles)
         \o SpawnRods(ld, p + 1)

RECURSIVE SpawnClimbers(_, _)
SpawnClimbers(ld, p) ==
    IF p > Len(ld.pillars) THEN <<>>
    ELSE ClimbersOfFace(p, ld.pillars[p], FaceOrder[1], ld.pillars[p].faces[FaceOrder[1]].climbers)
         \o ClimbersOfFace(p, ld.pillars[p], FaceOrder[2], ld.pillars[p].faces[FaceOrder[2]].climbers)
         \o SpawnClimbers(ld, p + 1)

(* The pylons pushed for the climbers of face `dir` of pillar p, in push order *)
RECURSIVE PylonsOf(_, _, _, _)
PylonsOf(cs, p, dir, k) ==
    IF k > Len(cs) THEN <<>>
    ELSE (IF cs[k].current_pillar = p /\ cs[k].face = <<p, dir>> THEN <<k>> ELSE <<>>)
         \o PylonsOf(cs, p, dir, k + 1)

(* Variant: only the pylons of the West face are pushed to a pool *)
SpawnPillars_WestOnly(ld) ==
    LET cs == SpawnClimbers(ld, 1)
    IN  [p \in 1 .. Len(ld.pillars) |->
            [unpowered_pylons |-> [dir \in FaceDirections |->
                IF dir = "West" THEN PylonsOf(cs, p, dir, 1) ELSE <<>>]]]

(* Variant: every pylon of a pillar is pushed to the pool of East *)
SpawnPillars_AllUnderEast(ld) ==
    LET cs == SpawnClimbers(ld, 1)
    IN  [p \in 1 .. Len(ld.pillars) |->
            [unpowered_pylons |-> [dir \in FaceDirections |->
                IF dir = "East"
                THEN PylonsOf(cs, p, "West", 1) \o PylonsOf(cs, p, "East", 1)
                ELSE <<>>]]]

SpawnPillars(ld) ==
    LET cs == SpawnClimbers(ld, 1)
    IN  [p \in 1 .. Len(ld.pillars) |->
            [unpowered_pylons |-> [dir \in FaceDirections |-> PylonsOf(cs, p, dir, 1)]]]

(* unpowered_pylons_count is a local of the loop over the pillars *)
unpowered_pylons_count(pd) ==
    Len(pd.faces[FaceOrder[1]].climbers) + Len(pd.faces[FaceOrder[2]].climbers)

(* insert_resource(LevelCompletion) sits in the loop over the pillars: each
   pillar overwrites the resource, the last one stays *)
SpawnLevelCompletion(ld) ==
    [pylons_count |-> unpowered_pylons_count(ld.pillars[Len(ld.pillars)]),
     powered_pylons_count |-> 0]

(* The components and resources spawn_level creates *)
spawn_level(ld) ==
    [level_name |-> ld.name,
     faces |-> SpawnFaces(ld),
     rods |-> SpawnRods(ld, 1),
     rod_progress_done |-> [r \in 1 .. Len(SpawnRods(ld, 1)) |-> TRUE],
     climbers |-> SpawnClimbers(ld, 1),
     pillars |-> SpawnPillars(ld),
     pylons |-> [k \in 1 .. Len(SpawnClimbers(ld, 1)) |-> [powered |-> FALSE]],
     level_completion |-> SpawnLevelCompletion(ld),
     win_pylons |-> Len(ld.pillars),
     before_toggle |-> [r \in 1 .. Len(SpawnRods(ld, 1)) |-> <<>>]]

(* What spawn_level creates for each level builder *)
spawned_levels == [k \in DOMAIN level_builders |-> spawn_level(level_builders[k])]

(* level_event_handler reads one LevelEvent: the current level is despawned
   with all its entities, LoadNext advances the level index, the level is
   spawned and the game phase is set to Playing.  The ReachedTop events of a
   frame are read in that frame, before the commands that respawn the level
   are applied.  last.id keeps the powered_pylons_count of the level that
   was despawned. *)
LevelEventHandler(event) ==
    LET idx == IF event = "LoadNext"
               THEN advance_level(current_level_idx(level_name))
               ELSE current_level_idx(level_name)
    IN  /\ crashed = "no"
        /\ climber_events = 0
        /\ LET world == spawned_levels[idx]
           IN  /\ level_name' = world.level_name
               /\ faces' = world.faces
               /\ rods' = world.rods
               /\ rod_progress_done' = world.rod_progress_done
               /\ climbers' = world.climbers
               /\ pillars' = world.pillars
               /\ pylons' = world.pylons
               /\ level_completion' = world.level_completion
               /\ win_pylons' = world.win_pylons
               /\ before_toggle' = world.before_toggle
        /\ game_state' = "Playing"
        /\ last' = [op |-> "spawn_level", id |-> level_completion.powered_pylons_count,
                    accepted |-> TRUE]
        /\ UNCHANGED <<climber_events, crashed>>

Init ==
    /\ \E ld \in Levels :
        LET world == spawn_level(ld)
        IN  /\ level_name = world.level_name
            /\ faces = world.faces
            /\ rods = world.rods
            /\ rod_progress_done = world.rod_progress_done
            /\ climbers = world.climbers
            /\ pillars = world.pillars
            /\ pylons = world.pylons
            /\ level_completion = world.level_completion
            /\ win_pylons = world.win_pylons
            /\ before_toggle = world.before_toggle
    /\ game_state = "Playing"
    /\ climber_events = 0
    /\ crashed = "no"
    /\ last = [op |-> "spawn_level", id |-> 0, accepted |-> TRUE]

----------------------------------------------------------------------------
(* Rod toggle (src/src/logic/rod.rs) *)

(* Variant: the temporary is lost, both references end on the same face *)
swap_face_NoTmp(rod) == [rod EXCEPT !.face = rod.opposite_face]

(* Variant: the references are left as they are *)
swap_face_Skipped(rod) == rod

swap_face(rod) ==
    [rod EXCEPT !.face = rod.opposite_face, !.opposite_face = rod.face]

(* Variant: the grid swap is not guarded by the animator's progress, only the
   tween is (the handler of src/src/logic.rs) *)
handle_picking_events_Unguarded(st, r) ==
    LET rod == st.rods[r]
        faces1 == [st.faces EXCEPT ![rod.face] = [@ EXCEPT !.tiles[<<rod.position.i, rod.position.j>>] = Void]]
        faces2 == [faces1 EXCEPT ![rod.opposite_face] =
                        [@ EXCEPT !.tiles[<<rod.position.i, rod.position.j>>] = MovableRod(FALSE)]]
    IN  [faces |-> faces2,
         rods |-> [st.rods EXCEPT ![r] =
                    [rod EXCEPT !.face = rod.opposite_face, !.opposite_face = rod.face]],
         rod_progress_done |-> [st.rod_progress_done EXCEPT ![r] = FALSE]]

(* One PickingEvent::Clicked(rod r) read by the handler; st holds the
   components the system has access to *)
handle_movable_rod_picking_events(st, r) ==
    LET rod == st.rods[r]
    IN  IF st.rod_progress_done[r]
        THEN LET faces1 == [st.faces EXCEPT ![rod.face] = remove_tile_at(@, rod.position)]
                 faces2 == [faces1 EXCEPT ![rod.opposite_face] =
                                set_tile_at(@, rod.position, MovableRod(FALSE))]
             IN  [faces |-> faces2,
                  rods |-> [st.rods EXCEPT ![r] = swap_face(rod)],
                  rod_progress_done |-> [st.rod_progress_done EXCEPT ![r] = FALSE]]
        ELSE st

(* A rod's recorded faces and the contents of its two mirrored cells *)
RodSnapshot(r) ==
    [rod |-> rods[r],
     cell |-> faces[rods[r].face].tiles[<<rods[r].position.i, rods[r].position.j>>],
     opposite_cell |->
        faces[rods[r].opposite_face].tiles[<<rods[r].position.i, rods[r].position.j>>]]

RodSystemState ==
    [faces |-> faces, rods |-> rods, rod_progress_done |-> rod_progress_done]

(* Variant: the toggle also drops the climbers that wait on the rod *)
ClickRod_DropsClimbers(r) ==
    /\ crashed = "no"
    /\ LET st == handle_movable_rod_picking_events(RodSystemState, r)
       IN  /\ faces' = st.faces
           /\ rods' = st.rods
           /\ rod_progress_done' = st.rod_progress_done
    /\ climbers' = [c \in DOMAIN climbers |->
            IF /\ rod_progress_done[r]
               /\ climbers[c].state = "Waiting"
               /\ climbers[c].face = rods[r].face
               /\ climbers[c].i = rods[r].position.i
               /\ climbers[c].j = rods[r].position.j
            THEN [climbers[c] EXCEPT !.state = "Falling"]
            ELSE climbers[c]]
    /\ before_toggle' = IF rod_progress_done[r]
                        THEN [before_toggle EXCEPT ![r] = <<RodSnapshot(r)>>]
                        ELSE before_toggle
    /\ last' = [op |-> "click", id |-> r, accepted |-> rod_progress_done[r]]
    /\ UNCHANGED <<level_name, pillars, pylons, level_completion,
                   game_state, climber_events, win_pylons, crashed>>

ClickRod(r) ==
    /\ crashed = "no"
    /\ LET st == handle_movable_rod_picking_events(RodSystemState, r)
       IN  /\ faces' = st.faces
           /\ rods' = st.rods
           /\ rod_progress_done' = st.rod_progress_done
    /\ before_toggle' = IF rod_progress_done[r]
                        THEN [before_toggle EXCEPT ![r] = <<RodSnapshot(r)>>]
                        ELSE before_toggle
    /\ last' = [op |-> "click", id |-> r, accepted |-> rod_progress_done[r]]
    /\ UNCHANGED <<level_name, climbers, pillars, pylons, level_completion,
                   game_state, climber_events, win_pylons, crashed>>

(* The rod's tween runs to its end: progress() >= 1.0 from now on *)
RodAnimatorDone(r) ==
    /\ crashed = "no"
    /\ ~rod_progress_done[r]
    /\ rod_progress_done' = [rod_progress_done EXCEPT ![r] = TRUE]
    /\ last' = [op |-> "rod_done", id |-> r, accepted |-> TRUE]
    /\ UNCHANGED <<level_name, faces, rods, climbers, pillars, pylons, level_completion,
                   game_state, climber_events, win_pylons, crashed, before_toggle>>

----------------------------------------------------------------------------
(* Pylon pools (src/src/logic/pillar.rs) *)

(* Variant: the last pylon is read and stays in the pool *)
PopLast_Kept(q) == q

PopLast(q) == SubSeq(q, 1, Len(q) - 1)

get_pylon_from_face(pillar, dir) ==
    LET pool == pillar.unpowered_pylons[dir]
    IN  IF Len(pool) > 0
        THEN [pillar |-> [pillar EXCEPT !.unpowered_pylons[dir] = PopLast(pool)],
              pylon |-> <<pool[Len(pool)]>>]
        ELSE [pillar |-> pillar, pylon |-> <<>>]

(* Variant: the pools are scanned in the order FaceDirection declares them *)
PylonScanOrder_AsDeclared == <<"West", "North", "East", "South">>

PylonScanOrder == <<"East", "West", "South", "North">>

RECURSIVE PopFirstFrom(_, _)
PopFirstFrom(pillar, k) ==
    IF k > Len(PylonScanOrder) THEN [pillar |-> pillar, pylon |-> <<>>]
    ELSE IF Len(pillar.unpowered_pylons[PylonScanOrder[k]]) > 0
         THEN get_pylon_from_face(pillar, PylonScanOrder[k])
         ELSE PopFirstFrom(pillar, k + 1)

pop_first_available_pylon(pillar) == PopFirstFrom(pillar, 1)

(* The pylon a climber that reached the top on a face of direction dir is
   given (the Moving branch of update_climbers); no pylon is the unwrap() of
   None *)
pick_pylon(pillar, dir) ==
    LET same_face_pylon == get_pylon_from_face(pillar, dir)
    IN  IF same_face_pylon.pylon # <<>> THEN same_face_pylon
        ELSE pop_first_available_pylon(pillar)

----------------------------------------------------------------------------
(* Climber state machine (src/src/logic/climber.rs).  A climber record holds
   ClimberState (state; face, i, j: on_tile / to_tile / on_face), the
   Transform's translation and the animator's progress() >= 1.  In Falling,
   Saved and Dead the fields i, j keep the last tile and are read by nothing;
   lost_signals counts the calls of next_state.set(Lost) made for it. *)

TileOf(cl) == [face |-> cl.face, i |-> cl.i, j |-> cl.j]

climber_start_moving(cl, next_tile) ==
    [cl EXCEPT !.state = "Moving", !.i = next_tile.i, !.j = next_tile.j,
               !.progress_done = FALSE]

(* Variant: the ground beneath the climber is not checked *)
WaitingTick_NoGroundCheck(st, c) ==
    LET cl == st.climbers[c]
        tile == TileOf(cl)
        face == st.faces[tile.face]
        next == get_next_free_tile_with_ground(face, tile)
    IN  IF next # <<>>
        THEN [st EXCEPT
                !.faces[tile.face] = set_occupied(set_free(face, tile), next[1]),
                !.climbers[c] = climber_start_moving(cl, next[1])]
        ELSE st

(* Variant: the game is Lost as soon as a climber starts to fall *)
WaitingTick_LostOnFall(st, c) ==
    LET cl == st.climbers[c]
        tile == TileOf(cl)
        face == st.faces[tile.face]
    IN  IF ~has_ground_on_tile(face, tile.i, tile.j)
        THEN [st EXCEPT !.climbers[c].state = "Falling",
                        !.game_state = "Lost"]
        ELSE LET next == get_next_free_tile_with_ground(face, tile)
             IN  IF next # <<>>
                 THEN [st EXCEPT
                        !.faces[tile.face] = set_occupied(set_free(face, tile), next[1]),
                        !.climbers[c] = climber_start_moving(cl, next[1])]
                 ELSE st

(* Variant: a climber with no ground beneath is Dead at once *)
WaitingTick_DiesOnVoid(st, c) ==
    LET cl == st.climbers[c]
        tile == TileOf(cl)
        face == st.faces[tile.face]
    IN  IF ~has_ground_on_tile(face, tile.i, tile.j)
        THEN [st EXCEPT !.climbers[c].state = "Dead",
                        !.climbers[c].lost_signals = @ + 1,
                        !.game_state = "Lost"]
        ELSE LET next == get_next_free_tile_with_ground(face, tile)
             IN  IF next # <<>>
                 THEN [st EXCEPT
                        !.faces[tile.face] = set_occupied(set_free(face, tile), next[1]),
                        !.climbers[c] = climber_start_moving(cl, next[1])]
                 ELSE st

(* Variant: a climber that finds no next tile gives up and falls *)
WaitingTick_StuckFalls(st, c) ==
    LET cl == st.climbers[c]
        tile == TileOf(cl)
        face == st.faces[tile.face]
    IN  IF ~has_ground_on_tile(face, tile.i, tile.j)
        THEN [st EXCEPT !.climbers[c].state = "Falling"]
        ELSE LET next == get_next_free_tile_with_ground(face, tile)
             IN  IF next # <<>>
                 THEN [st EXCEPT
                        !.faces[tile.face] = set_occupied(set_free(face, tile), next[1]),
                        !.climbers[c] = climber_start_moving(cl, next[1])]
                 ELSE [st EXCEPT !.climbers[c].state = "Falling"]

(* Variant: the tile the climber leaves is cleared instead of freed *)
WaitingTick_ClearsTile(st, c) ==
    LET cl == st.climbers[c]
        tile == TileOf(cl)
        face == st.faces[tile.face]
    IN  IF ~has_ground_on_tile(face, tile.i, tile.j)
        THEN [st EXCEPT !.climbers[c].state = "Falling"]
        ELSE LET next == get_next_free_tile_with_ground(face, tile)
             IN  IF next # <<>>
                 THEN [st EXCEPT
                        !.faces[tile.face] = set_occupied(remove_tile_at(face, tile), next[1]),
                        !.climbers[c] = climber_start_moving(cl, next[1])]
                 ELSE st

WaitingTick(st, c) ==
    LET cl == st.climbers[c]
        tile == TileOf(cl)
        face == st.faces[tile.face]
    IN  IF ~has_ground_on_tile(face, tile.i, tile.j)
        THEN [st EXCEPT !.climbers[c].state = "Falling"]
        ELSE LET next == get_next_free_tile_with_ground(face, tile)
             IN  IF next # <<>>
                 THEN [st EXCEPT
                        !.faces[tile.face] = set_occupied(set_free(face, tile), next[1]),
                        !.climbers[c] = climber_start_moving(cl, next[1])]
                 ELSE st

(* Variant: the top row is compared with h instead of h - 1 *)
reached_top_OffByOne(face, to) == to.j >= face.size.h

(* The test of the Moving branch for the top row *)
reached_top(face, to) == to.j >= face.size.h - 1

(* Variant: a completed move onto a tile that has lost its ground is held
   until the ground is back *)
MovingTick_WaitsForGround(st, c) ==
    LET cl == st.climbers[c]
        to == TileOf(cl)
        face == st.faces[to.face]
    IN  IF ~cl.progress_done \/ ~has_ground_on_tile(face, to.i, to.j) THEN st
        ELSE IF reached_top(face, to)
        THEN LET freed == [st EXCEPT !.faces[to.face] = set_free(face, to)]
                 pillar == st.pillars[cl.current_pillar]
                 got == pick_pylon(pillar, face.direction)
             IN  IF got.pylon = <<>>
                 THEN [freed EXCEPT !.crashed = "unwrap: no unpowered pylon"]
                 ELSE [freed EXCEPT
                        !.pillars[cl.current_pillar] = got.pillar,
                        !.pylons[got.pylon[1]].powered = TRUE,
                        !.climbers[c].state = "Saved",
                        !.climber_events = @ + 1]
        ELSE [st EXCEPT !.climbers[c].state = "Waiting"]

(* Variant: a move whose target has lost its ground is aborted *)
MovingTick_AbortsOnVoid(st, c) ==
    LET cl == st.climbers[c]
        to == TileOf(cl)
        face == st.faces[to.face]
    IN  IF ~cl.progress_done
        THEN IF has_ground_on_tile(face, to.i, to.j) THEN st
             ELSE [st EXCEPT !.climbers[c].state = "Falling"]
        ELSE IF reached_top(face, to)
        THEN LET freed == [st EXCEPT !.faces[to.face] = set_free(face, to)]
                 pillar == st.pillars[cl.current_pillar]
                 got == pick_pylon(pillar, face.direction)
             IN  IF got.pylon = <<>>
                 THEN [freed EXCEPT !.crashed = "unwrap: no unpowered pylon"]
                 ELSE [freed EXCEPT
                        !.pillars[cl.current_pillar] = got.pillar,
                        !.pylons[got.pylon[1]].powered = TRUE,
                        !.climbers[c].state = "Saved",
                        !.climber_events = @ + 1]
        ELSE [st EXCEPT !.climbers[c].state = "Waiting"]

(* Variant: ReachedTop is sent twice for a saved climber *)
MovingTick_SendsTwice(st, c) ==
    LET cl == st.climbers[c]
        to == TileOf(cl)
        face == st.faces[to.face]
    IN  IF ~cl.progress_done THEN st
        ELSE IF reached_top(face, to)
        THEN LET freed == [st EXCEPT !.faces[to.face] = set_free(face, to)]
                 pillar == st.pillars[cl.current_pillar]
                 got == pick_pylon(pillar, face.direction)
             IN  IF got.pylon = <<>>
                 THEN [freed EXCEPT !.crashed = "unwrap: no unpowered pylon"]
                 ELSE [freed EXCEPT
                        !.pillars[cl.current_pillar] = got.pillar,
                        !.pylons[got.pylon[1]].powered = TRUE,
                        !.climbers[c].state = "Saved",
                        !.climber_events = @ + 2]
        ELSE [st EXCEPT !.climbers[c].state = "Waiting"]

(* Variant: the top tile is not freed *)
MovingTick_NoSetFree(st, c) ==
    LET cl == st.climbers[c]
        to == TileOf(cl)
        face == st.faces[to.face]
    IN  IF ~cl.progress_done THEN st
        ELSE IF reached_top(face, to)
        THEN LET pillar == st.pillars[cl.current_pillar]
                 got == pick_pylon(pillar, face.direction)
             IN  IF got.pylon = <<>>
                 THEN [st EXCEPT !.crashed = "unwrap: no unpowered pylon"]
                 ELSE [st EXCEPT
                        !.pillars[cl.current_pillar] = got.pillar,
                        !.pylons[got.pylon[1]].powered = TRUE,
                        !.climbers[c].state = "Saved",
                        !.climber_events = @ + 1]
        ELSE [st EXCEPT !.climbers[c].state = "Waiting"]

(* Variant: with no pylon left the climber is Saved all the same *)
MovingTick_IgnoresExhaustion(st, c) ==
    LET cl == st.climbers[c]
        to == TileOf(cl)
        face == st.faces[to.face]
    IN  IF ~cl.progress_done THEN st
        ELSE IF reached_top(face, to)
        THEN LET freed == [st EXCEPT !.faces[to.face] = set_free(face, to)]
                 pillar == st.pillars[cl.current_pillar]
                 got == pick_pylon(pillar, face.direction)
             IN  IF got.pylon = <<>>
                 THEN [freed EXCEPT !.climbers[c].state = "Saved",
                                    !.climber_events = @ + 1]
                 ELSE [freed EXCEPT
                        !.pillars[cl.current_pillar] = got.pillar,
                        !.pylons[got.pylon[1]].powered = TRUE,
                        !.climbers[c].state = "Saved",
                        !.climber_events = @ + 1]
        ELSE [st EXCEPT !.climbers[c].state = "Waiting"]

MovingTick(st, c) ==
    LET cl == st.climbers[c]
        to == TileOf(cl)
        face == st.faces[to.face]
    IN  IF ~cl.progress_done THEN st
        ELSE IF reached_top(face, to)
        THEN LET freed == [st EXCEPT !.faces[to.face] = set_free(face, to)]
                 pillar == st.pillars[cl.current_pillar]
                 got == pick_pylon(pillar, face.direction)
             IN  IF got.pylon = <<>>
                 THEN [freed EXCEPT !.crashed = "unwrap: no unpowered pylon"]
                 ELSE [freed EXCEPT
                        !.pillars[cl.current_pillar] = got.pillar,
                        !.pylons[got.pylon[1]].powered = TRUE,
                        !.climbers[c].state = "Saved",
                        !.climber_events = @ + 1]
        ELSE [st EXCEPT !.climbers[c].state = "Waiting"]

(* Variant: the climber that lands keeps the position it fell to *)
FallingTick_NoSnap(st, c) ==
    LET cl == st.climbers[c]
        face == st.faces[cl.face]
        ij == get_tile_coords_from_pos(face, cl.translation)
        landed_on == [face |-> cl.face, i |-> ij[1], j |-> ij[2]]
        st1 == IF has_ground_on_tile(face, ij[1], ij[2])
               THEN [st EXCEPT
                        !.faces[cl.face] = set_occupied(face, landed_on),
                        !.climbers[c].state = "Waiting",
                        !.climbers[c].i = landed_on.i,
                        !.climbers[c].j = landed_on.j]
               ELSE [st EXCEPT !.climbers[c].translation.y = @ - FALL_STEP]
    IN  IF st1.climbers[c].translation.y <= 0
        THEN [st1 EXCEPT !.climbers[c].state = "Dead",
                         !.climbers[c].lost_signals = @ + 1,
                         !.game_state = "Lost"]
        ELSE st1

(* Variant: a climber with no ground beneath keeps its height *)
FallingTick_Hovers(st, c) ==
    LET cl == st.climbers[c]
        face == st.faces[cl.face]
        ij == get_tile_coords_from_pos(face, cl.translation)
        landed_on == [face |-> cl.face, i |-> ij[1], j |-> ij[2]]
        st1 == IF has_ground_on_tile(face, ij[1], ij[2])
               THEN [st EXCEPT
                        !.faces[cl.face] = set_occupied(face, landed_on),
                        !.climbers[c].translation = climber_get_pos_from_tile(face, landed_on),
                        !.climbers[c].state = "Waiting",
                        !.climbers[c].i = landed_on.i,
                        !.climbers[c].j = landed_on.j]
               ELSE st
    IN  IF st1.climbers[c].translation.y <= 0
        THEN [st1 EXCEPT !.climbers[c].state = "Dead",
                         !.climbers[c].lost_signals = @ + 1,
                         !.game_state = "Lost"]
        ELSE st1

FallingTick(st, c) ==
    LET cl == st.climbers[c]
        face == st.faces[cl.face]
        ij == get_tile_coords_from_pos(face, cl.translation)
        landed_on == [face |-> cl.face, i |-> ij[1], j |-> ij[2]]
        st1 == IF has_ground_on_tile(face, ij[1], ij[2])
               THEN [st EXCEPT
                        !.faces[cl.face] = set_occupied(face, landed_on),
                        !.climbers[c].translation = climber_get_pos_from_tile(face, landed_on),
                        !.climbers[c].state = "Waiting",
                        !.climbers[c].i = landed_on.i,
                        !.climbers[c].j = landed_on.j]
               ELSE [st EXCEPT !.climbers[c].translation.y = @ - FALL_STEP]
    IN  IF st1.climbers[c].translation.y <= 0
        THEN [st1 EXCEPT !.climbers[c].state = "Dead",
                         !.climbers[c].lost_signals = @ + 1,
                         !.game_state = "Lost"]
        ELSE st1

(* Variant: a Dead climber is not terminal, it goes through the Falling
   branch again *)
climber_tick_DeadFalls(st, c) ==
    LET state == st.climbers[c].state
    IN  CASE state = "Waiting" -> WaitingTick(st, c)
          [] state = "Moving" -> MovingTick(st, c)
          [] state = "Falling" -> FallingTick(st, c)
          [] state = "Saved" -> st
          [] state = "Dead" -> FallingTick(st, c)

(* Variant: a Saved climber is not terminal, it goes through the Moving
   branch again *)
climber_tick_SavedMoves(st, c) ==
    LET state == st.climbers[c].state
    IN  CASE state = "Waiting" -> WaitingTick(st, c)
          [] state = "Moving" -> MovingTick(st, c)
          [] state = "Falling" -> FallingTick(st, c)
          [] state = "Saved" -> MovingTick(st, c)
          [] state = "Dead" -> st

(* The body of the loop of update_climbers for climber c *)
climber_tick(st, c) ==
    LET state == st.climbers[c].state
    IN  CASE state = "Waiting" -> WaitingTick(st, c)
          [] state = "Moving" -> MovingTick(st, c)
          [] state = "Falling" -> FallingTick(st, c)
          [] state = "Saved" -> st
          [] state = "Dead" -> st

(* The loop over the climbers, in spawn order; a panic ends it *)
RECURSIVE update_climbers(_, _)
update_climbers(st, c) ==
    IF c > Len(st.climbers) \/ st.crashed # "no" THEN st
    ELSE update_climbers(climber_tick(st, c), c + 1)

ClimberSystemState ==
    [faces |-> faces, climbers |-> climbers, pillars |-> pillars, pylons |-> pylons,
     game_state |-> game_state, climber_events |-> climber_events, crashed |-> crashed]

UpdateClimbers ==
    /\ crashed = "no"
    /\ LET st == update_climbers(ClimberSystemState, 1)
       IN  /\ faces' = st.faces
           /\ climbers' = st.climbers
           /\ pillars' = st.pillars
           /\ pylons' = st.pylons
           /\ game_state' = st.game_state
           /\ climber_events' = st.climber_events
           /\ crashed' = st.crashed
    /\ last' = [op |-> "update_climbers", id |-> 0, accepted |-> TRUE]
    /\ UNCHANGED <<level_name, rods, rod_progress_done, level_completion, win_pylons,
                   before_toggle>>

(* The tween set by climber_start_moving runs to its end: the Transform is
   at the target tile's position and progress() >= 1 from now on *)
ClimberAnimatorDone(c) ==
    /\ crashed = "no"
    /\ climbers[c].state = "Moving"
    /\ ~climbers[c].progress_done
    /\ climbers' = [climbers EXCEPT
            ![c].progress_done = TRUE,
            ![c].translation = climber_get_pos_from_tile(faces[climbers[c].face],
                                                         TileOf(climbers[c]))]
    /\ last' = [op |-> "climber_done", id |-> c, accepted |-> TRUE]
    /\ UNCHANGED <<level_name, faces, rods, rod_progress_done, pillars, pylons,
                   level_completion, game_state, climber_events, win_pylons, crashed,
                   before_toggle>>

----------------------------------------------------------------------------
(* Level completion (src/src/logic/level.rs) *)

(* Variant: won as soon as one pylon is powered *)
is_won_AnyPowered(lc) == lc.powered_pylons_count >= 1

is_won(lc) == lc.powered_pylons_count >= lc.pylons_count

(* Variant: the count is reset when the level is won *)
RECURSIVE climber_event_handler_ResetWhenWon(_, _)
climber_event_handler_ResetWhenWon(st, n) ==
    IF n = 0 \/ st.crashed # "no" THEN st
    ELSE LET lc == [st.level_completion EXCEPT !.powered_pylons_count = @ + 1]
             st1 == [st EXCEPT !.level_completion = lc]
         IN  climber_event_handler_ResetWhenWon(
                IF is_won(lc)
                THEN IF st.win_pylons # 1
                     THEN [st1 EXCEPT !.crashed = "single_mut: not exactly one WinPylon"]
                     ELSE [st1 EXCEPT !.game_state = "Won",
                                      !.level_completion.powered_pylons_count = 0]
                ELSE st1,
                n - 1)

(* The loop of climber_event_handler over n ReachedTop events;
   win_pylon.single_mut() panics unless the level has exactly one WinPylon *)
RECURSIVE climber_event_handler(_, _)
climber_event_handler(st, n) ==
    IF n = 0 \/ st.crashed # "no" THEN st
    ELSE LET lc == [st.level_completion EXCEPT !.powered_pylons_count = @ + 1]
             st1 == [st EXCEPT !.level_completion = lc]
         IN  climber_event_handler(
                IF is_won(lc)
                THEN IF st.win_pylons # 1
                     THEN [st1 EXCEPT !.crashed = "single_mut: not exactly one WinPylon"]
                     ELSE [st1 EXCEPT !.game_state = "Won"]
                ELSE st1,
                n - 1)

ClimberEventHandler ==
    /\ crashed = "no"
    /\ climber_events > 0
    /\ LET st == climber_event_handler(
                    [level_completion |-> level_completion, game_state |-> game_state,
                     win_pylons |-> win_pylons, crashed |-> crashed],
                    climber_events)
       IN  /\ level_completion' = st.level_completion
           /\ game_state' = st.game_state
           /\ crashed' = st.crashed
    /\ climber_events' = 0
    /\ last' = [op |-> "climber_event_handler", id |-> climber_events, accepted |-> TRUE]
    /\ UNCHANGED <<level_name, faces, rods, rod_progress_done, climbers, pillars,
                   pylons, win_pylons, before_toggle>>

----------------------------------------------------------------------------

Next ==
    \/ \E r \in DOMAIN rods : ClickRod(r)
    \/ \E r \in DOMAIN rods : RodAnimatorDone(r)
    \/ UpdateClimbers
    \/ \E c \in DOMAIN climbers : ClimberAnimatorDone(c)
    \/ ClimberEventHandler
    \/ \E event \in {"Reload", "LoadNext"} : LevelEventHandler(event)

Spec == Init /\ [][Next]_vars

----------------------------------------------------------------------------
(* Properties *)

CellAt(f, pos) == faces[f].tiles[<<pos.i, pos.j>>]

ClickAccepted(r) == last.op = "click" /\ last.id = r /\ last.accepted

(* C1: for each movable rod, exactly one of its two opposite faces holds
   MovableRod at the rod's coordinate and the other holds Void, in every
   reachable state *)
C1_RodCellsComplementary ==
    \A r \in DOMAIN rods :
        LET a == CellAt(rods[r].face, rods[r].position)
            b == CellAt(rods[r].opposite_face, rods[r].position)
        IN  /\ rods[r].opposite_face[1] = rods[r].face[1]
            /\ rods[r].opposite_face[2] = get_opposite(rods[r].face[2])
            /\ \/ a.kind = "MovableRod" /\ b = Void
               \/ b.kind = "MovableRod" /\ a = Void

(* A rod has just been toggled under a climber that stood on it *)
C1_Witness ==
    \E r \in DOMAIN rods : \E c \in DOMAIN climbers :
        /\ ClickAccepted(r)
        /\ before_toggle[r][1].cell = MovableRod(TRUE)
        /\ climbers[c].state = "Waiting"
        /\ climbers[c].face = rods[r].opposite_face
        /\ climbers[c].i = rods[r].position.i /\ climbers[c].j = rods[r].position.j

(* C2 as stated: the second of two accepted toggles of a rod leaves the
   rod's recorded faces and the contents of both mirrored cells as they were
   before the first *)
C2_RoundTripContents ==
    [][\A r \in DOMAIN rods :
        (last'.op = "click" /\ last'.id = r /\ last'.accepted /\ before_toggle[r] # <<>>)
            => RodSnapshot(r)' = before_toggle[r][1]]_vars

(* C2 amended: the second of two accepted toggles of a rod leaves the rod's
   recorded faces and the variant of both mirrored cells as they were before
   the first, and the rod's cell unoccupied *)
C2_RoundTripVariants ==
    [][\A r \in DOMAIN rods :
        (last'.op = "click" /\ last'.id = r /\ last'.accepted /\ before_toggle[r] # <<>>)
            => /\ RodSnapshot(r)'.rod = before_toggle[r][1].rod
               /\ RodSnapshot(r)'.cell.kind = before_toggle[r][1].cell.kind
               /\ RodSnapshot(r)'.opposite_cell.kind = before_toggle[r][1].opposite_cell.kind
               /\ RodSnapshot(r)'.cell = MovableRod(FALSE)]_vars

(* A rod is back on the face it was spawned on after two accepted toggles *)
C2_Witness ==
    \E r \in DOMAIN rods :
        /\ ClickAccepted(r)
        /\ before_toggle[r][1].rod.face = rods[r].opposite_face
        /\ faces[rods[r].face].tiles[<<rods[r].position.i, rods[r].position.j>>]
                = MovableRod(FALSE)
        /\ rods[r] = SpawnRods(CHOOSE ld \in Levels : ld.name = level_name, 1)[r]

(* C3: a click on a rod whose relocation has not completed changes no grid,
   no rod reference and no in-flight status, and the completion of the
   relocation does not toggle the rod either (nothing was queued) *)
C3_InFlightClickIsNoOp ==
    [][/\ \A r \in DOMAIN rods :
            (last'.op = "click" /\ last'.id = r /\ ~rod_progress_done[r])
                => /\ ~last'.accepted
                   /\ UNCHANGED <<faces, rods, rod_progress_done, climbers, pillars,
                                  pylons, level_completion, game_state, climber_events>>
       /\ last'.op = "rod_done" => UNCHANGED <<faces, rods>>]_vars

(* An in-flight rod has just been clicked *)
C3_Witness ==
    \E r \in DOMAIN rods :
        last.op = "click" /\ last.id = r /\ ~last.accepted /\ ~rod_progress_done[r]

(* C4: a Waiting climber whose tile is Void is Falling on the same face
   after the next run of update_climbers, and until then, in its level, it
   stays Waiting *)
C4_VoidTileThenFalling ==
    [][\A c \in DOMAIN climbers :
        (/\ last'.op # "spawn_level"
         /\ climbers[c].state = "Waiting"
         /\ ~has_ground_on_tile(faces[climbers[c].face], climbers[c].i, climbers[c].j))
            => /\ climbers'[c].face = climbers[c].face
               /\ IF last'.op = "update_climbers"
                  THEN climbers'[c].state = "Falling"
                  ELSE climbers'[c].state = "Waiting"]_vars

(* A climber has just started Falling from a movable rod's coordinate *)
C4_Witness ==
    \E c \in DOMAIN climbers : \E r \in DOMAIN rods :
        /\ last.op = "update_climbers"
        /\ climbers[c].state = "Falling"
        /\ climbers[c].face = rods[r].opposite_face
        /\ climbers[c].i = rods[r].position.i /\ climbers[c].j = rods[r].position.j
        /\ climbers[c].translation =
                climber_get_pos_from_tile(faces[climbers[c].face], TileOf(climbers[c]))

(* C5: a run of update_climbers takes a Waiting climber standing on ground
   at (i,j) to Moving to (i+1,j+1) when that tile has ground, else to Moving
   to (i-1,j+1) when i > 0 and that tile has ground, else leaves it Waiting
   at (i,j) *)
C5_SearchPolicy ==
    [][\A c \in DOMAIN climbers :
        LET cl == climbers[c]
            face == faces[cl.face]
            up == has_ground_on_tile(face, cl.i + 1, cl.j + 1)
            back == cl.i > 0 /\ has_ground_on_tile(face, cl.i - 1, cl.j + 1)
        IN  (/\ last'.op = "update_climbers"
             /\ cl.state = "Waiting"
             /\ has_ground_on_tile(face, cl.i, cl.j))
            => /\ climbers'[c].face = cl.face
               /\ up => /\ climbers'[c].state = "Moving"
                        /\ climbers'[c].i = cl.i + 1 /\ climbers'[c].j = cl.j + 1
               /\ (~up /\ back) => /\ climbers'[c].state = "Moving"
                                   /\ climbers'[c].i = cl.i - 1 /\ climbers'[c].j = cl.j + 1
               /\ (~up /\ ~back) => /\ climbers'[c].state = "Waiting"
                                    /\ climbers'[c].i = cl.i /\ climbers'[c].j = cl.j]_vars

(* A climber has just started a move to (i+1,j+1) although (i-1,j+1) has
   ground too *)
C5_Witness ==
    \E c \in DOMAIN climbers :
        /\ last.op = "update_climbers"
        /\ climbers[c].state = "Moving" /\ ~climbers[c].progress_done
        /\ climbers[c].i >= 2
        /\ get_tile_coords_from_pos(faces[climbers[c].face], climbers[c].translation)[1]
                = climbers[c].i - 1
        /\ has_ground_on_tile(faces[climbers[c].face], climbers[c].i - 2, climbers[c].j)

(* C6: powered_pylons_count never exceeds pylons_count, and the game phase
   is Won exactly from the moment powered_pylons_count has reached
   pylons_count *)
C6_WonExactlyAtEquality ==
    /\ level_completion.powered_pylons_count <= level_completion.pylons_count
    /\ game_state = "Won" <=>
            (/\ level_completion.pylons_count > 0
             /\ level_completion.powered_pylons_count = level_completion.pylons_count)

(* C7: whenever the game phase is Won, every climber of every pillar is
   Saved *)
C7_WonOnlyWhenAllSaved ==
    game_state = "Won" => \A c \in DOMAIN climbers : climbers[c].state = "Saved"

(* The level of two climbers has been won *)
C7_Witness ==
    /\ game_state = "Won"
    /\ Len(climbers) >= 2
    /\ last.op = "climber_event_handler"

(* C8: right after spawn_level, pylons_count is the number of pylons of the
   level, over all pillars and faces, and powered_pylons_count is 0 *)
C8_PylonsCountIsLevelTotal ==
    last.op = "spawn_level" =>
        /\ level_completion.pylons_count = Len(pylons)
        /\ level_completion.powered_pylons_count = 0

(* Nothing is in motion and a run of update_climbers changes nothing *)
Quiescent ==
    /\ crashed = "no"
    /\ climber_events = 0
    /\ \A c \in DOMAIN climbers :
            ~(climbers[c].state = "Moving" /\ ~climbers[c].progress_done)
    /\ update_climbers(ClimberSystemState, 1) = ClimberSystemState

(* C9 as stated: on level I, when driving ticks and motion completions has
   come to rest, the climber is Saved and exactly one pylon is powered *)
C9_TicksAloneSaveClimber ==
    (level_name = "I" /\ Quiescent) =>
        /\ climbers[1].state = "Saved"
        /\ level_completion.powered_pylons_count = 1

RodsOnClimberFace == \A r \in DOMAIN rods : rods[r].face = <<1, "West">>

(* C9 amended: on level I every move of the climber goes one column and one
   row up along (1,3), (2,4), (3,5), (4,6), it is Saved only from (4,6), one
   ReachedTop event is sent when it is Saved and none before, and once both
   movable rods have been toggled onto its face, driving ticks and motion
   completions comes to rest, unless it fell to the ground, with the climber
   Saved, powered_pylons_count 1 and the level Won *)
C9_Level1Scenario ==
    /\ [](level_name = "I" =>
            /\ climbers[1].state \in {"Waiting", "Moving"} =>
                    <<climbers[1].i, climbers[1].j>> \in {<<1, 3>>, <<2, 4>>, <<3, 5>>, <<4, 6>>}
            /\ climber_events + level_completion.powered_pylons_count
                    = IF climbers[1].state = "Saved" THEN 1 ELSE 0
            /\ (Quiescent /\ RodsOnClimberFace /\ climbers[1].state # "Dead") =>
                    /\ climbers[1].state = "Saved"
                    /\ level_completion.powered_pylons_count = 1
                    /\ game_state = "Won")
    /\ [][level_name = "I" =>
            /\ (climbers[1].state = "Waiting" /\ climbers'[1].state = "Moving") =>
                    /\ climbers'[1].i = climbers[1].i + 1
                    /\ climbers'[1].j = climbers[1].j + 1
            /\ (climbers[1].state # "Saved" /\ climbers'[1].state = "Saved") =>
                    /\ climbers[1].state = "Moving"
                    /\ <<climbers[1].i, climbers[1].j>> = <<4, 6>>
                    /\ climber_events' = climber_events + 1]_vars

(* Level I has been climbed to the top and won *)
C9_Witness ==
    /\ level_name = "I"
    /\ climbers[1].state = "Saved"
    /\ RodsOnClimberFace
    /\ Quiescent
    /\ game_state = "Won"

(* C10: a run of update_climbers that finds a Falling climber over no ground
   and takes its height to 0 or below makes it Dead and sets Lost, Lost is
   signalled once for it, and in its level it stays Dead without another
   signal *)
C10_FallToGroundDeadOnce ==
    /\ [](\A c \in DOMAIN climbers :
            /\ climbers[c].lost_signals = IF climbers[c].state = "Dead" THEN 1 ELSE 0
            /\ climbers[c].state = "Dead" => game_state = "Lost")
    /\ [][\A c \in DOMAIN climbers :
            LET cl == climbers[c]
                ij == get_tile_coords_from_pos(faces[cl.face], cl.translation)
            IN  /\ (/\ last'.op = "update_climbers"
                    /\ cl.state = "Falling"
                    /\ ~has_ground_on_tile(faces[cl.face], ij[1], ij[2])
                    /\ cl.translation.y - FALL_STEP <= 0)
                        => /\ climbers'[c].state = "Dead"
                           /\ climbers'[c].lost_signals = 1
                           /\ game_state' = "Lost"
                /\ (cl.state = "Dead" /\ last'.op # "spawn_level")
                        => climbers'[c] = cl]_vars

(* A climber has fallen to the ground and update_climbers has run again *)
C10_Witness ==
    \E c \in DOMAIN climbers :
        /\ climbers[c].state = "Dead"
        /\ climbers[c].translation.y <= 0
        /\ climbers[c].lost_signals = 1
        /\ game_state = "Lost"
        /\ last.op = "update_climbers"
        /\ update_climbers(ClimberSystemState, 1) = ClimberSystemState

(* C11: for every face and every (i,j), in range or one or two past it:
   is_valid is true iff i < w and j < h; has_ground is false whenever i >= w
   or j >= h; and for a valid (i,j) has_ground is true iff the stored tile
   is not Void *)
C11_ValidityAndGround ==
    \A f \in DOMAIN faces :
        \A i \in 0 .. faces[f].size.w + 1 : \A j \in 0 .. faces[f].size.h + 1 :
            /\ is_valid(faces[f], i, j) <=> (i < faces[f].size.w /\ j < faces[f].size.h)
            /\ (i >= faces[f].size.w \/ j >= faces[f].size.h)
                    => ~has_ground_on_tile(faces[f], i, j)
            /\ (i < faces[f].size.w /\ j < faces[f].size.h)
                    => (has_ground_on_tile(faces[f], i, j)
                            <=> faces[f].tiles[<<i, j>>].kind # "Void")

(* A climber of the last column has just started a move to the column
   before it, onto a movable rod: the search has found no ground at column w,
   out of range, and ground on the rod *)
C11_Witness ==
    \E c \in DOMAIN climbers :
        LET face == faces[climbers[c].face]
        IN  /\ last.op = "update_climbers"
            /\ climbers[c].state = "Moving" /\ ~climbers[c].progress_done
            /\ get_tile_coords_from_pos(face, climbers[c].translation)[1] = face.size.w - 1
            /\ climbers[c].i = face.size.w - 2
            /\ ~is_valid(face, face.size.w, climbers[c].j)
            /\ face.tiles[<<climbers[c].i, climbers[c].j>>].kind = "MovableRod"
            /\ has_ground_on_tile(face, climbers[c].i, climbers[c].j)

(* The face f as a face of direction d *)
FaceTowards(f, d) == [faces[f] EXCEPT !.direction = d]

(* C12: for every face direction and every valid (i,j), the tile coordinates
   of the climber anchor position of (i,j) are (i,j) *)
C12_PositionRoundTrip ==
    \A f \in DOMAIN faces : \A d \in FaceDirections :
        \A i \in 0 .. faces[f].size.w - 1 : \A j \in 0 .. faces[f].size.h - 1 :
            get_tile_coords_from_pos(FaceTowards(f, d),
                climber_get_pos_from_tile(FaceTowards(f, d),
                                          [face |-> f, i |-> i, j |-> j]))
                = <<i, j>>

OnTile(c) == climbers[c].state \in {"Waiting", "Moving"}

(* C13: no two climbers that are Waiting on or Moving to a tile refer to the
   same (face, i, j) *)
C13_OneClimberPerTile ==
    \A c, d \in DOMAIN climbers :
        (c # d /\ OnTile(c) /\ OnTile(d)) => TileOf(climbers[c]) # TileOf(climbers[d])

(* The ClimberData climber c was spawned from *)
SpawnTile(c) ==
    LET cl == spawned_levels[current_level_idx(level_name)].climbers[c]
    IN  <<cl.i, cl.j>>

(* C14: the tracked tile of a climber that is Waiting or Moving satisfies
   i < w and j < h for its current face *)
C14_TrackedTileInRange ==
    \A c \in DOMAIN climbers :
        OnTile(c) => /\ climbers[c].i >= 0 /\ climbers[c].i < faces[climbers[c].face].size.w
                     /\ climbers[c].j >= 0 /\ climbers[c].j < faces[climbers[c].face].size.h

(* A climber has fallen and landed: it waits in the bottom row on a tile it
   was not spawned on, at that tile's anchor *)
C14_Witness ==
    \E c \in DOMAIN climbers :
        /\ last.op = "update_climbers"
        /\ climbers[c].state = "Waiting"
        /\ climbers[c].j = 0
        /\ <<climbers[c].i, climbers[c].j>> # SpawnTile(c)
        /\ climbers[c].translation =
                climber_get_pos_from_tile(faces[climbers[c].face], TileOf(climbers[c]))

(* C15: powered_pylons_count never decreases in a step that does not spawn
   a level, and a step that spawns a level leaves it 0 *)
C15_PoweredCountMonotone ==
    [][IF last'.op = "spawn_level"
       THEN level_completion'.powered_pylons_count = 0
       ELSE level_completion'.powered_pylons_count
                >= level_completion.powered_pylons_count]_vars

(* A level has just been spawned in place of one that had powered pylons *)
C15_Witness ==
    /\ last.op = "spawn_level"
    /\ last.id > 0
    /\ level_completion.powered_pylons_count = 0

Terminal(c) == climbers[c].state \in {"Saved", "Dead"}

(* C16: the tick of a Saved or Dead climber changes nothing (no grid, no
   pylon pool, no pylon, no game phase, no event), and within its level a
   Saved climber stays Saved and a Dead climber stays Dead *)
C16_SavedAndDeadAreTerminal ==
    /\ [](\A c \in DOMAIN climbers :
            Terminal(c) => climber_tick(ClimberSystemState, c) = ClimberSystemState)
    /\ [][\A c \in DOMAIN climbers :
            (Terminal(c) /\ last'.op # "spawn_level")
                => climbers'[c].state = climbers[c].state]_vars

(* One climber is Saved, another is Dead, and update_climbers has just run *)
C16_Witness ==
    \E c, d \in DOMAIN climbers :
        /\ climbers[c].state = "Saved"
        /\ climbers[d].state = "Dead"
        /\ last.op = "update_climbers"
        /\ game_state = "Lost"

----------------------------------------------------------------------------
(* The pylon allocator applied to a pillar of any pools: each of MaxPylons
   pylons is pooled under a direction or is powered already ("none"); the
   pooling is kept in level_name *)

RECURSIVE PooledUnder(_, _, _)
PooledUnder(pooling, dir, k) ==
    IF k > MaxPylons THEN <<>>
    ELSE (IF pooling[k] = dir THEN <<k>> ELSE <<>>) \o PooledUnder(pooling, dir, k + 1)

PickInit ==
    /\ \E pooling \in [1 .. MaxPylons -> FaceDirections \cup {"none"}] :
        /\ level_name = pooling
        /\ pillars = <<[unpowered_pylons |->
                            [dir \in FaceDirections |-> PooledUnder(pooling, dir, 1)]]>>
        /\ pylons = [k \in 1 .. MaxPylons |-> [powered |-> pooling[k] = "none"]]
    /\ faces = <<>>
    /\ rods = <<>>
    /\ rod_progress_done = <<>>
    /\ climbers = <<>>
    /\ level_completion = [pylons_count |-> MaxPylons, powered_pylons_count |-> 0]
    /\ game_state = "Playing"
    /\ climber_events = 0
    /\ win_pylons = 1
    /\ crashed = "no"
    /\ before_toggle = <<>>
    /\ last = [op |-> "spawn_level", id |-> "none", accepted |-> <<>>]

(* A climber reaches the top on a face of direction dir: the pylon it is
   given is powered; with no pylon left the unwrap() panics *)
PickPylon(dir) ==
    /\ crashed = "no"
    /\ LET got == pick_pylon(pillars[1], dir)
       IN  /\ pillars' = [pillars EXCEPT ![1] = got.pillar]
           /\ pylons' = IF got.pylon # <<>>
                         THEN [pylons EXCEPT ![got.pylon[1]].powered = TRUE]
                         ELSE pylons
           /\ crashed' = IF got.pylon # <<>> THEN "no" ELSE "unwrap: no unpowered pylon"
           /\ last' = [op |-> "pick_pylon", id |-> dir, accepted |-> got.pylon]
    /\ UNCHANGED <<level_name, faces, rods, rod_progress_done, climbers,
                   level_completion, game_state, climber_events, win_pylons,
                   before_toggle>>

PickNext == \E dir \in FaceDirections : PickPylon(dir)

PickSpec == PickInit /\ [][PickNext]_vars

(* The first direction, in the order East, West, South, North, whose pool is
   not empty *)
FirstNonEmpty(pools) ==
    IF pools["East"] # <<>> THEN "East"
    ELSE IF pools["West"] # <<>> THEN "West"
    ELSE IF pools["South"] # <<>> THEN "South"
    ELSE IF pools["North"] # <<>> THEN "North"
    ELSE "none"

(* C17: a pick for direction d takes a pylon pooled under d when that pool is
   not empty; otherwise it takes one from the first non-empty pool in the
   order East, West, South, North; it takes nothing else, and yields no
   pylon only when every pool of the pillar is empty *)
C17_PickPylonOrder ==
    [][last'.op = "pick_pylon" =>
        LET pools == pillars[1].unpowered_pylons
            from == IF pools[last'.id] # <<>> THEN last'.id ELSE FirstNonEmpty(pools)
            got == last'.accepted
        IN  IF from = "none"
            THEN /\ got = <<>>
                 /\ \A dir \in FaceDirections : pools[dir] = <<>>
                 /\ pillars' = pillars
            ELSE /\ Len(got) = 1
                 /\ got[1] = pools[from][Len(pools[from])]
                 /\ pillars'[1].unpowered_pylons[from]
                        = SubSeq(pools[from], 1, Len(pools[from]) - 1)
                 /\ \A dir \in FaceDirections \ {from} :
                        pillars'[1].unpowered_pylons[dir] = pools[dir]
                 /\ pylons'[got[1]].powered]_vars

(* A pick for North, whose pool was empty, has taken a pylon pooled under
   West although the South pool holds one too: the East pool was empty *)
C17_Witness ==
    /\ last.op = "pick_pylon"
    /\ last.id = "North"
    /\ Len(last.accepted) = 1
    /\ level_name[last.accepted[1]] = "West"
    /\ pillars[1].unpowered_pylons["East"] = <<>>
    /\ pillars[1].unpowered_pylons["South"] # <<>>
    /\ pillars[1].unpowered_pylons["North"] = <<>>

(* The places (pillar, direction, position) where pylon k is pooled *)
PooledAt(k) ==
    {pl \in (DOMAIN pillars) \X FaceDirections \X (DOMAIN pylons) :
        /\ pl[3] <= Len(pillars[pl[1]].unpowered_pylons[pl[2]])
        /\ pillars[pl[1]].unpowered_pylons[pl[2]][pl[3]] = k}

(* C18: an unpowered pylon is pooled in exactly one place and a powered one
   in none, there are as many powered pylons as Saved climbers, and in a step
   that does not spawn a level every pool keeps a prefix of what it held and
   every powered pylon stays powered *)
C18_PylonsOnlyConsumed ==
    /\ [](/\ \A k \in DOMAIN pylons :
                Cardinality(PooledAt(k)) = IF pylons[k].powered THEN 0 ELSE 1
          /\ Cardinality({k \in DOMAIN pylons : pylons[k].powered})
                = Cardinality({c \in DOMAIN climbers : climbers[c].state = "Saved"}))
    /\ [][last'.op # "spawn_level" =>
            /\ \A q \in DOMAIN pillars : \A dir \in FaceDirections :
                    LET pool == pillars[q].unpowered_pylons[dir]
                        left == pillars'[q].unpowered_pylons[dir]
                    IN  Len(left) <= Len(pool) /\ left = SubSeq(pool, 1, Len(left))
            /\ \A k \in DOMAIN pylons : pylons[k].powered => pylons'[k].powered]_vars

(* Two climbers of one pillar have been given its two pylons: both are
   powered and every pool of the pillar is empty *)
C18_Witness ==
    \E q \in DOMAIN pillars : \E c, d \in DOMAIN climbers :
        /\ c # d
        /\ climbers[c].state = "Saved" /\ climbers[c].current_pillar = q
        /\ climbers[d].state = "Saved" /\ climbers[d].current_pillar = q
        /\ \A dir \in FaceDirections : pillars[q].unpowered_pylons[dir] = <<>>
        /\ pylons[c].powered /\ pylons[d].powered
        /\ last.op = "update_climbers"

----------------------------------------------------------------------------
(* Frames (main of src/src/main.rs): update_climbers is added to the
   FixedUpdate schedule, which the main schedule runs before the Update set
   the picking handler is in; a frame runs update_climbers when the fixed
   timestep has elapsed (tick), then handles the click of the frame, if any
   (click = 0: none), then the ReachedTop events *)

Frame(click, tick) ==
    /\ crashed = "no"
    /\ LET cs == IF tick THEN update_climbers(ClimberSystemState, 1)
                  ELSE ClimberSystemState
           clicked == click \in DOMAIN rods /\ cs.crashed = "no"
           rs0 == [faces |-> cs.faces, rods |-> rods,
                   rod_progress_done |-> rod_progress_done]
           rs == IF clicked THEN handle_movable_rod_picking_events(rs0, click) ELSE rs0
           es == climber_event_handler(
                    [level_completion |-> level_completion, game_state |-> cs.game_state,
                     win_pylons |-> win_pylons, crashed |-> cs.crashed],
                    cs.climber_events)
       IN  /\ climbers' = cs.climbers
           /\ pillars' = cs.pillars
           /\ pylons' = cs.pylons
           /\ faces' = rs.faces
           /\ rods' = rs.rods
           /\ rod_progress_done' = rs.rod_progress_done
           /\ level_completion' = es.level_completion
           /\ game_state' = es.game_state
           /\ crashed' = es.crashed
           /\ climber_events' = IF cs.crashed = "no" THEN 0 ELSE cs.climber_events
           /\ before_toggle' =
                IF clicked /\ rod_progress_done[click]
                THEN [before_toggle EXCEPT ![click] =
                        <<[rod |-> rods[click],
                           cell |-> cs.faces[rods[click].face].tiles[
                                        <<rods[click].position.i, rods[click].position.j>>],
                           opposite_cell |-> cs.faces[rods[click].opposite_face].tiles[
                                        <<rods[click].position.i, rods[click].position.j>>]]>>]
                ELSE before_toggle
           /\ last' = [op |-> "frame", id |-> click,
                       accepted |-> clicked /\ rod_progress_done[click], tick |-> tick]
    /\ UNCHANGED <<level_name, win_pylons>>

FrameNext ==
    \/ \E click \in DOMAIN rods \cup {0} : \E tick \in BOOLEAN : Frame(click, tick)
    \/ \E r \in DOMAIN rods : RodAnimatorDone(r)
    \/ \E c \in DOMAIN climbers : ClimberAnimatorDone(c)

FrameSpec == Init /\ [][FrameNext]_vars

(* Climber c is Waiting on the cell that holds rod r *)
WaitingOnRod(c, r) ==
    /\ climbers[c].state = "Waiting"
    /\ climbers[c].face = rods[r].face
    /\ climbers[c].i = rods[r].position.i /\ climbers[c].j = rods[r].position.j

(* C19: in a frame that runs update_climbers and in which a rod is toggled
   away, update_climbers queries the grid without the rod: a climber that was
   Waiting on the rod is Falling at the end of the frame *)
C19_ToggleSeenBySameTick ==
    [][\A c \in DOMAIN climbers : \A r \in DOMAIN rods :
        (/\ last'.op = "frame" /\ last'.tick
         /\ last'.id = r /\ last'.accepted
         /\ WaitingOnRod(c, r))
            => climbers'[c].state = "Falling"]_vars

----------------------------------------------------------------------------

(* The faces as spawn_level made them for the current level *)
LoadedFaces == spawned_levels[current_level_idx(level_name)].faces

(* C20: a cell that is StaticRod when the level is loaded is StaticRod, with
   ground, in every state of that level *)
C20_StaticRodIsPermanent ==
    \A f \in DOMAIN faces : \A cell \in DOMAIN faces[f].tiles :
        LoadedFaces[f].tiles[cell].kind = "StaticRod"
            => /\ faces[f].tiles[cell].kind = "StaticRod"
               /\ has_ground_on_tile(faces[f], cell[1], cell[2])

(* Every movable rod of the level has been toggled, a climber has left the
   static rod it was spawned on and occupies another static rod *)
C20_Witness ==
    /\ Len(rods) >= 1
    /\ \A r \in DOMAIN rods : before_toggle[r] # <<>>
    /\ \E c \in DOMAIN climbers :
            /\ OnTile(c)
            /\ <<climbers[c].i, climbers[c].j>> # SpawnTile(c)
            /\ faces[climbers[c].face].tiles[SpawnTile(c)] = StaticRod(FALSE)
            /\ faces[climbers[c].face].tiles[<<climbers[c].i, climbers[c].j>>]
                    = StaticRod(TRUE)

(* The variant of every cell of every face *)
Variants == [f \in DOMAIN faces |-> [cell \in DOMAIN faces[f].tiles |-> faces[f].tiles[cell].kind]]

(* C21: a run of update_climbers changes the variant of no cell, and a step
   that changes the variant of a cell is an accepted rod toggle or a level
   load *)
C21_TicksKeepVariants ==
    [][/\ last'.op = "update_climbers" => Variants' = Variants
       /\ Variants' # Variants
            => \/ last'.op = "click" /\ last'.accepted
               \/ last'.op = "spawn_level"]_vars

(* update_climbers has just moved a climber off a movable rod that was
   toggled before, onto a static rod *)
C21_Witness ==
    \E c \in DOMAIN climbers : \E r \in DOMAIN rods :
        /\ last.op = "update_climbers"
        /\ climbers[c].state = "Moving" /\ ~climbers[c].progress_done
        /\ CellAt(climbers[c].face, TileOf(climbers[c])) = StaticRod(TRUE)
        /\ before_toggle[r] # <<>>
        /\ rods[r].face = climbers[c].face
        /\ rods[r].position.j = climbers[c].j - 1
        /\ CellAt(rods[r].face, rods[r].position) = MovableRod(FALSE)

(* C22: a click on a rod, accepted or not, leaves every climber (state,
   face, tracked tile, position), every pylon pool, every pylon, the
   completion tracker, the game phase and the events unchanged; a climber's
   state changes only in a run of update_climbers or with its level *)
C22_ToggleLeavesClimbers ==
    [][/\ last'.op = "click"
            => UNCHANGED <<climbers, pillars, pylons, level_completion, game_state,
                           climber_events>>
       /\ \A c \in DOMAIN climbers :
            (last'.op # "spawn_level" /\ climbers'[c].state # climbers[c].state)
                => last'.op = "update_climbers"]_vars

(* The rod a climber is Moving to has just been toggled away: the climber is
   still Moving to the cell, which is Void *)
C22_Witness ==
    \E r \in DOMAIN rods : \E c \in DOMAIN climbers :
        /\ ClickAccepted(r)
        /\ climbers[c].state = "Moving" /\ ~climbers[c].progress_done
        /\ climbers[c].face = rods[r].opposite_face
        /\ climbers[c].i = rods[r].position.i /\ climbers[c].j = rods[r].position.j
        /\ CellAt(climbers[c].face, TileOf(climbers[c])) = Void

----------------------------------------------------------------------------
(* Levels with fewer unpowered pylons than climbers: the level is spawned and
   the pylons of `taken` are powered and in no pool *)

RECURSIVE Without(_, _)
Without(pool, taken) ==
    IF pool = <<>> THEN <<>>
    ELSE (IF Head(pool) \in taken THEN <<>> ELSE <<Head(pool)>>) \o Without(Tail(pool), taken)

ExhaustInit ==
    /\ \E k \in DOMAIN level_builders : \E taken \in SUBSET DOMAIN spawned_levels[k].pylons :
        LET world == spawned_levels[k]
        IN  /\ level_name = world.level_name
            /\ faces = world.faces
            /\ rods = world.rods
            /\ rod_progress_done = world.rod_progress_done
            /\ climbers = world.climbers
            /\ pillars = [q \in DOMAIN world.pillars |->
                    [unpowered_pylons |-> [dir \in FaceDirections |->
                        Without(world.pillars[q].unpowered_pylons[dir], taken)]]]
            /\ pylons = [n \in DOMAIN world.pylons |-> [powered |-> n \in taken]]
            /\ level_completion = world.level_completion
            /\ win_pylons = world.win_pylons
            /\ before_toggle = world.before_toggle
    /\ game_state = "Playing"
    /\ climber_events = 0
    /\ crashed = "no"
    /\ last = [op |-> "spawn_level", id |-> 0, accepted |-> TRUE]

ExhaustNext ==
    \/ \E r \in DOMAIN rods : ClickRod(r)
    \/ \E r \in DOMAIN rods : RodAnimatorDone(r)
    \/ UpdateClimbers
    \/ \E c \in DOMAIN climbers : ClimberAnimatorDone(c)
    \/ ClimberEventHandler

ExhaustSpec == ExhaustInit /\ [][ExhaustNext]_vars

(* Every pool of pillar q is empty *)
Exhausted(q) == \A dir \in FaceDirections : pillars[q].unpowered_pylons[dir] = <<>>

Saved == {c \in DOMAIN climbers : climbers[c].state = "Saved"}

(* C23: a run of update_climbers that finds a climber with a completed move
   onto the top row and every pool of its pillar empty ends in a panic: the
   climber is not Saved, the events sent in the run are those of the climbers
   it saved before, and powered_pylons_count is unchanged; every ReachedTop
   sent or counted is one Saved climber *)
C23_ExhaustionPanics ==
    /\ [](crashed \in {"no", "unwrap: no unpowered pylon"}
            => climber_events + level_completion.powered_pylons_count = Cardinality(Saved))
    /\ [][\A c \in DOMAIN climbers :
            (/\ last'.op = "update_climbers"
             /\ climbers[c].state = "Moving" /\ climbers[c].progress_done
             /\ climbers[c].j >= faces[climbers[c].face].size.h - 1
             /\ Exhausted(climbers[c].current_pillar))
                => /\ crashed' # "no"
                   /\ climbers'[c].state = "Moving"
                   /\ climber_events' - climber_events = Cardinality(Saved' \ Saved)
                   /\ level_completion' = level_completion]_vars

(* update_climbers has panicked on a climber that completed its move onto
   the top row of a pillar without a pylon left *)
C23_Witness ==
    \E c \in DOMAIN climbers :
        /\ crashed = "unwrap: no unpowered pylon"
        /\ last.op = "update_climbers"
        /\ climbers[c].state = "Moving" /\ climbers[c].progress_done
        /\ climbers[c].j = faces[climbers[c].face].size.h - 1
        /\ Exhausted(climbers[c].current_pillar)

----------------------------------------------------------------------------
(* C24: an accepted toggle of a rod (its relocation was complete) sets, in
   one step, the cell of the rod's coordinate to Void on the rod's face and
   to MovableRod on the opposite face, swaps the rod's two recorded faces
   and marks the rod in flight; every other cell of every face, the rod's
   coordinate and the other rods are unchanged *)
C24_ToggleEffect ==
    [][\A r \in DOMAIN rods :
        (last'.op = "click" /\ last'.id = r /\ rod_progress_done[r])
            => /\ last'.accepted
               /\ faces'[rods[r].face].tiles[<<rods[r].position.i, rods[r].position.j>>] = Void
               /\ faces'[rods[r].opposite_face].tiles[<<rods[r].position.i, rods[r].position.j>>].kind
                        = "MovableRod"
               /\ rods'[r].face = rods[r].opposite_face
               /\ rods'[r].opposite_face = rods[r].face
               /\ rods'[r].position = rods[r].position
               /\ ~rod_progress_done'[r]
               /\ \A f \in DOMAIN faces : \A t \in DOMAIN faces[f].tiles :
                    (f \notin {rods[r].face, rods[r].opposite_face}
                        \/ t # <<rods[r].position.i, rods[r].position.j>>)
                        => faces'[f].tiles[t] = faces[f].tiles[t]
               /\ \A f \in DOMAIN faces :
                    faces'[f].size = faces[f].size /\ faces'[f].origin = faces[f].origin
               /\ \A o \in DOMAIN rods \ {r} :
                    rods'[o] = rods[o] /\ rod_progress_done'[o] = rod_progress_done[o]]_vars

(* A rod has just been toggled on a face that holds another rod in the
   row of its coordinate *)
C24_Witness ==
    \E r \in DOMAIN rods :
        /\ ClickAccepted(r)
        /\ ~rod_progress_done[r]
        /\ CellAt(rods[r].face, rods[r].position).kind = "MovableRod"
        /\ CellAt(rods[r].opposite_face, rods[r].position) = Void
        /\ \E t \in DOMAIN faces[rods[r].face].tiles :
                /\ t[2] = rods[r].position.j /\ t[1] # rods[r].position.i
                /\ faces[rods[r].face].tiles[t].kind # "MovableRod"

----------------------------------------------------------------------------
(* What the body of the loop of update_climbers finds when it comes to
   climber c: the state left by the climbers before c *)
RECURSIVE TicksBefore(_, _, _)
TicksBefore(st, k, c) ==
    IF k >= c \/ st.crashed # "no" THEN st
    ELSE TicksBefore(climber_tick(st, k), k + 1, c)

(* The pylons of pillar q that are in one of its pools in st *)
PoolOf(st, q) ==
    {n \in DOMAIN st.pylons :
        \E dir \in FaceDirections : \E k \in DOMAIN st.pillars[q].unpowered_pylons[dir] :
            st.pillars[q].unpowered_pylons[dir][k] = n}

(* C25: in a run of update_climbers, the tick of a Moving climber whose
   move is complete does this: if the target row is >= h - 1 the target tile
   is freed, exactly one pylon leaves the pools of the climber's pillar and
   becomes powered, the climber is Saved and one ReachedTop event is sent;
   otherwise the climber is Waiting on the target and no pylon, pool or event
   changes *)
C25_CompletedMove ==
    [][\A c \in DOMAIN climbers :
        LET pre == TicksBefore(ClimberSystemState, 1, c)
            post == climber_tick(pre, c)
            to == TileOf(climbers[c])
            q == climbers[c].current_pillar
        IN  (/\ last'.op = "update_climbers"
             /\ pre.crashed = "no"
             /\ climbers[c].state = "Moving" /\ climbers[c].progress_done)
                => /\ pre.climbers[c] = climbers[c]
                   /\ climbers'[c] = post.climbers[c]
                   /\ IF to.j >= faces[to.face].size.h - 1
                      THEN /\ post.faces[to.face].tiles[<<to.i, to.j>>]
                                = WithOccupied(pre.faces[to.face].tiles[<<to.i, to.j>>], FALSE)
                           /\ \A f \in DOMAIN faces : \A t \in DOMAIN faces[f].tiles :
                                (f # to.face \/ t # <<to.i, to.j>>)
                                    => post.faces[f].tiles[t] = pre.faces[f].tiles[t]
                           /\ \E n \in PoolOf(pre, q) :
                                /\ PoolOf(post, q) = PoolOf(pre, q) \ {n}
                                /\ ~pre.pylons[n].powered /\ post.pylons[n].powered
                                /\ \A m \in DOMAIN pylons \ {n} : post.pylons[m] = pre.pylons[m]
                           /\ \A o \in DOMAIN pillars \ {q} : post.pillars[o] = pre.pillars[o]
                           /\ climbers'[c].state = "Saved"
                           /\ post.climber_events = pre.climber_events + 1
                      ELSE /\ climbers'[c].state = "Waiting"
                           /\ TileOf(climbers'[c]) = to
                           /\ post.faces = pre.faces
                           /\ post.pylons = pre.pylons
                           /\ post.pillars = pre.pillars
                           /\ post.climber_events = pre.climber_events]_vars

(* A run of update_climbers has just saved a climber that was not the first
   of the loop, on a tile that is now free, and a pylon is powered *)
C25_Witness ==
    \E c \in DOMAIN climbers :
        /\ last.op = "update_climbers"
        /\ climbers[c].state = "Saved"
        /\ climber_events >= 1
        /\ c > 1
        /\ CellAt(climbers[c].face, TileOf(climbers[c])).kind # "Void"
        /\ ~CellAt(climbers[c].face, TileOf(climbers[c])).occupied
        /\ \E n \in DOMAIN pylons : pylons[n].powered /\ n \notin PoolOf(ClimberSystemState, climbers[c].current_pillar)

----------------------------------------------------------------------------
(* C26: in a run of update_climbers, the tick of a Moving climber whose move
   is not complete changes nothing (no climber, no grid cell, no occupancy, no
   pool, no pylon, no game phase, no event), and after the run the climber is
   Moving to the same target, whatever the target tile holds *)
C26_IncompleteMoveIsIdle ==
    [][\A c \in DOMAIN climbers :
        LET pre == TicksBefore(ClimberSystemState, 1, c)
        IN  (/\ last'.op = "update_climbers"
             /\ pre.crashed = "no"
             /\ climbers[c].state = "Moving" /\ ~climbers[c].progress_done)
                => /\ pre.climbers[c] = climbers[c]
                   /\ climber_tick(pre, c) = pre
                   /\ climbers'[c] = climbers[c]]_vars

(* A run of update_climbers has just left a climber Moving, its move not
   complete, to a tile that is Void *)
C26_Witness ==
    \E c \in DOMAIN climbers :
        /\ last.op = "update_climbers"
        /\ climbers[c].state = "Moving" /\ ~climbers[c].progress_done
        /\ CellAt(climbers[c].face, TileOf(climbers[c])) = Void

----------------------------------------------------------------------------
(* Climber c of st waits on a tile with ground and neither candidate tile
   has ground *)
Stuck(st, c) ==
    LET cl == st.climbers[c]
        face == st.faces[cl.face]
    IN  /\ cl.state = "Waiting"
        /\ has_ground_on_tile(face, cl.i, cl.j)
        /\ get_next_free_tile_with_ground(face, TileOf(cl)) = <<>>

(* C27: the tick of a Waiting climber that stands on ground with no
   candidate tile with ground changes nothing (the climber, the occupancy
   flags, everything else), and in its level such a climber stays Waiting on
   the same tile in every step; it is still without a candidate after every
   step that leaves the variants of the cells as they are *)
C27_StuckStaysWaiting ==
    [][\A c \in DOMAIN climbers :
        LET pre == TicksBefore(ClimberSystemState, 1, c)
        IN  (last'.op # "spawn_level" /\ Stuck(ClimberSystemState, c))
                => /\ climbers'[c] = climbers[c]
                   /\ Variants' = Variants => Stuck(ClimberSystemState, c)'
                   /\ (last'.op = "update_climbers" /\ pre.crashed = "no")
                        => Stuck(pre, c) /\ climber_tick(pre, c) = pre]_vars

(* A run of update_climbers has just gone over a climber that has not left
   the place it was spawned at and has no candidate tile *)
C27_Witness ==
    \E c \in DOMAIN climbers :
        /\ last.op = "update_climbers"
        /\ Stuck(ClimberSystemState, c)
        /\ climbers[c] = spawned_levels[current_level_idx(level_name)].climbers[c]
        /\ climbers[c].translation
                # climber_get_pos_from_tile(faces[climbers[c].face], TileOf(climbers[c]))

----------------------------------------------------------------------------
(* C28: in a run of update_climbers, the tick of a Falling climber whose
   position gives a tile (i,j) with ground on its face marks that tile
   occupied and changes no other cell, and after the run the climber is
   Waiting on (i,j) of the same face, at the anchor position of (i,j); a
   Falling climber whose position gives a tile without ground is not Waiting
   after the run *)
C28_LandingOnGround ==
    [][\A c \in DOMAIN climbers :
        LET pre == TicksBefore(ClimberSystemState, 1, c)
            post == climber_tick(pre, c)
            cl == climbers[c]
            ij == get_tile_coords_from_pos(faces[cl.face], cl.translation)
            landed_on == [face |-> cl.face, i |-> ij[1], j |-> ij[2]]
        IN  (/\ last'.op = "update_climbers"
             /\ pre.crashed = "no"
             /\ cl.state = "Falling")
                => /\ pre.climbers[c] = cl
                   /\ climbers'[c] = post.climbers[c]
                   /\ IF has_ground_on_tile(pre.faces[cl.face], ij[1], ij[2])
                      THEN /\ has_ground_on_tile(faces'[cl.face], ij[1], ij[2])
                           /\ post.faces[cl.face].tiles[ij].occupied
                           /\ \A f \in DOMAIN faces : \A t \in DOMAIN faces[f].tiles :
                                (f # cl.face \/ t # ij)
                                    => post.faces[f].tiles[t] = pre.faces[f].tiles[t]
                           /\ climbers'[c].state = "Waiting"
                           /\ TileOf(climbers'[c]) = landed_on
                           /\ climbers'[c].translation
                                = climber_get_pos_from_tile(faces[cl.face], landed_on)
                      ELSE /\ climbers'[c].state \in {"Falling", "Dead"}
                           /\ post.faces = pre.faces]_vars

(* A climber waits, at the anchor of an occupied tile, on a row below the
   one it was spawned on: a Falling tick has landed it there *)
C28_Witness ==
    \E c \in DOMAIN climbers :
        /\ climbers[c].state = "Waiting"
        /\ climbers[c].j < SpawnTile(c)[2]
        /\ CellAt(climbers[c].face, TileOf(climbers[c])).kind # "Void"
        /\ CellAt(climbers[c].face, TileOf(climbers[c])).occupied
        /\ climbers[c].translation
                = climber_get_pos_from_tile(faces[climbers[c].face], TileOf(climbers[c]))

----------------------------------------------------------------------------
(* The game loop keeps running: update_climbers is in the FixedUpdate
   schedule and runs again and again, and the tween of a climber's animator
   advances with time until it is complete *)

ClimberIds == UNION {DOMAIN spawned_levels[k].climbers : k \in DOMAIN spawned_levels}

(* An UpdateClimbers step, told by what it records: no other action of Next
   sets last to this record *)
UpdateClimbersRuns ==
    /\ crashed = "no"
    /\ last' = [op |-> "update_climbers", id |-> 0, accepted |-> TRUE]

(* After a step of another system, update_climbers runs again (implied by
   WF_vars(UpdateClimbers)); a tween that is running completes *)
LiveSpec ==
    /\ Spec
    /\ WF_last(UpdateClimbersRuns)
    /\ \A c \in ClimberIds : WF_vars(c \in DOMAIN climbers /\ ClimberAnimatorDone(c))

(* Climber c is Moving *)
InFlight(c) == c \in DOMAIN climbers /\ climbers[c].state = "Moving"

(* C29: a Moving climber leaves Moving only to Waiting on its target or to
   Saved, never to Falling or Dead, whatever its target tile holds; and with
   the loop running and the motion-complete signal eventually reported, a
   climber that is Moving is eventually Waiting or Saved, unless the program
   panics or the level is loaded again before *)
C29_NoMidFlightAbort ==
    /\ [][\A c \in DOMAIN climbers :
            (last'.op # "spawn_level" /\ climbers[c].state = "Moving")
                => /\ climbers'[c].state \in {"Moving", "Waiting", "Saved"}
                   /\ TileOf(climbers'[c]) = TileOf(climbers[c])
                   /\ climbers'[c].state # "Moving" => climbers[c].progress_done]_vars
    /\ \A c \in ClimberIds :
            InFlight(c) ~> \/ crashed # "no"
                           \/ last.op = "spawn_level"
                           \/ c \in DOMAIN climbers /\ climbers[c].state \in {"Waiting", "Saved"}

(* A run of update_climbers has just ended the move of a climber on a tile
   that is Void: the rod was toggled away during the move *)
C29_Witness ==
    \E c \in DOMAIN climbers :
        /\ last.op = "update_climbers"
        /\ climbers[c].state = "Waiting" /\ climbers[c].progress_done
        /\ CellAt(climbers[c].face, TileOf(climbers[c])) = Void
        /\ climbers[c].translation
                = climber_get_pos_from_tile(faces[climbers[c].face], TileOf(climbers[c]))

----------------------------------------------------------------------------
(* The changes of state the branches of update_climbers make *)
Edges ==
    {<<"Waiting", "Moving">>, <<"Waiting", "Falling">>,
     <<"Moving", "Waiting">>, <<"Moving", "Saved">>,
     <<"Falling", "Waiting">>, <<"Falling", "Dead">>}

(* C30: within a level, a step that changes the state of a climber is a run
   of update_climbers and the change is one of Waiting->Moving,
   Waiting->Falling, Moving->Waiting, Moving->Saved, Falling->Waiting,
   Falling->Dead; a climber becomes Saved only from Moving, its move complete
   and its target on row >= h - 1, and Dead only from Falling *)
C30_StateEdges ==
    [][\A c \in DOMAIN climbers :
        (last'.op # "spawn_level" /\ climbers'[c].state # climbers[c].state)
            => /\ last'.op = "update_climbers"
               /\ <<climbers[c].state, climbers'[c].state>> \in Edges
               /\ climbers'[c].state = "Saved"
                    => /\ climbers[c].state = "Moving"
                       /\ climbers[c].progress_done
                       /\ climbers[c].j >= faces[climbers[c].face].size.h - 1
               /\ climbers'[c].state = "Dead" => climbers[c].state = "Falling"]_vars

(* One climber has fallen to its death from a rod that was toggled, and
   another has been saved after two moves *)
C30_Witness ==
    \E c, d \in DOMAIN climbers :
        /\ climbers[c].state = "Dead"
        /\ climbers[d].state = "Saved"
        /\ climbers[d].j >= SpawnTile(d)[2] + 2

----------------------------------------------------------------------------
(* The climbers of pillar q that are not Saved *)
Unsaved(q) ==
    {c \in DOMAIN climbers : climbers[c].current_pillar = q /\ climbers[c].state # "Saved"}

(* C31: in every reachable state of every level, the number of unpowered
   pylons pooled on a pillar is the number of the pillar's climbers that are
   not Saved; a climber Moving to the top row has a pylon in the pools of its
   pillar, and the pylon lookup has not failed *)
C31_PoolMatchesUnsaved ==
    /\ \A q \in DOMAIN pillars :
            Cardinality(PoolOf(ClimberSystemState, q)) = Cardinality(Unsaved(q))
    /\ \A c \in DOMAIN climbers :
            (climbers[c].state = "Moving"
                /\ climbers[c].j >= faces[climbers[c].face].size.h - 1)
                => PoolOf(ClimberSystemState, climbers[c].current_pillar) # {}
    /\ crashed # "unwrap: no unpowered pylon"

(* A run of update_climbers has just saved one climber of a pillar, and
   another climber of the pillar and one pooled pylon are left *)
C31_Witness ==
    \E c, d \in DOMAIN climbers :
        /\ last.op = "update_climbers"
        /\ climbers[c].state = "Saved" /\ climber_events >= 1
        /\ climbers[d].current_pillar = climbers[c].current_pillar
        /\ climbers[d].state # "Saved"
        /\ Cardinality(PoolOf(ClimberSystemState, climbers[c].current_pillar)) = 1

----------------------------------------------------------------------------
(* The climbers of pillar q on its face of direction dir that are not Saved *)
UnsavedOn(q, dir) == {c \in Unsaved(q) : climbers[c].face = <<q, dir>>}

(* C32: in every level, the pool of each direction of a pillar holds as
   many pylons as the face of that direction has climbers that are not Saved,
   no climber changes face, and a run of update_climbers that comes to a
   climber with a completed move onto the top row finds a pylon in the pool of
   the climber's own face: the scan of the other pools is not taken *)
C32_OwnFacePylon ==
    /\ [](\A q \in DOMAIN pillars : \A dir \in FaceDirections :
            Len(pillars[q].unpowered_pylons[dir]) = Cardinality(UnsavedOn(q, dir)))
    /\ [][\A c \in DOMAIN climbers :
            LET pre == TicksBefore(ClimberSystemState, 1, c)
                cl == climbers[c]
                dir == faces[cl.face].direction
                pool == pre.pillars[cl.current_pillar].unpowered_pylons[dir]
            IN  /\ last'.op # "spawn_level" => climbers'[c].face = cl.face
                /\ (/\ last'.op = "update_climbers"
                    /\ pre.crashed = "no"
                    /\ cl.state = "Moving" /\ cl.progress_done
                    /\ cl.j >= faces[cl.face].size.h - 1)
                        => /\ dir = cl.face[2]
                           /\ pool # <<>>
                           /\ pick_pylon(pre.pillars[cl.current_pillar], dir).pylon
                                = <<pool[Len(pool)]>>
                           /\ pylons'[pool[Len(pool)]].powered]_vars

(* A run of update_climbers has just saved a climber of a West face while
   the pool of East, the first of the scan, holds a pylon *)
C32_Witness ==
    \E c \in DOMAIN climbers :
        /\ last.op = "update_climbers"
        /\ climbers[c].state = "Saved" /\ climber_events >= 1
        /\ climbers[c].face[2] = "West"
        /\ pillars[climbers[c].current_pillar].unpowered_pylons["East"] # <<>>
        /\ pylons[c].powered

----------------------------------------------------------------------------
(* C33: a climber that started Falling from tile (i,j) and lands, lands on
   the same face in column i and in a row <= j (a Falling climber's record
   keeps the tile it fell from) *)
C33_LandsNotAbove ==
    [][\A c \in DOMAIN climbers :
        (/\ last'.op = "update_climbers"
         /\ climbers[c].state = "Falling"
         /\ climbers'[c].state = "Waiting")
            => /\ climbers'[c].face = climbers[c].face
               /\ climbers'[c].i = climbers[c].i
               /\ climbers'[c].j <= climbers[c].j]_vars

----------------------------------------------------------------------------
(* A run of update_climbers would change something: ENABLED
   <<UpdateClimbers>>_vars, written as a state predicate *)
TickDue ==
    /\ crashed = "no"
    /\ \/ last # [op |-> "update_climbers", id |-> 0, accepted |-> TRUE]
       \/ update_climbers(ClimberSystemState, 1) # ClimberSystemState

(* update_climbers is in the FixedUpdate schedule: it runs again and again
   as long as a run changes something, which is WF_vars(UpdateClimbers) with
   its ENABLED written out *)
FallSpec ==
    /\ LiveSpec
    /\ ([]<>(~TickDue) \/ []<><<UpdateClimbersRuns>>_vars)

(* C34: a run of update_climbers either lands a Falling climber (Waiting) or
   lowers its height by the fixed step, and makes it Dead exactly when the
   lowered height is <= 0; with update_climbers running again and again, a
   Falling climber is eventually Waiting or Dead, unless the program panics
   or the level is loaded again before *)
C34_FallingEnds ==
    /\ [][\A c \in DOMAIN climbers :
            (last'.op = "update_climbers" /\ climbers[c].state = "Falling")
                => \/ climbers'[c].state = "Waiting"
                   \/ /\ climbers'[c].translation.y = climbers[c].translation.y - FALL_STEP
                      /\ climbers'[c].state
                            = IF climbers'[c].translation.y <= 0 THEN "Dead" ELSE "Falling"]_vars
    /\ \A c \in ClimberIds :
            (c \in DOMAIN climbers /\ climbers[c].state = "Falling")
                ~> \/ crashed # "no"
                   \/ last.op = "spawn_level"
                   \/ c \in DOMAIN climbers /\ climbers[c].state \in {"Waiting", "Dead"}

(* A run of update_climbers has just made Dead a climber that fell from
   row 1 or higher *)
C34_Witness ==
    \E c \in DOMAIN climbers :
        /\ last.op = "update_climbers"
        /\ climbers[c].state = "Dead"
        /\ climbers[c].translation.y <= 0
        /\ climbers[c].j >= 1
        /\ update_climbers(ClimberSystemState, 1) = ClimberSystemState

----------------------------------------------------------------------------
(* The pylons whose powered flag is set *)
Powered == {n \in DOMAIN pylons : pylons[n].powered}

(* C35: while the program runs, powered_pylons_count plus the ReachedTop
   events not yet handled is the number of Saved climbers of the level and the
   number of powered pylons, so once the events are handled the count is both;
   a run of update_climbers sends one event per climber it saves and a run of
   climber_event_handler adds the events it reads to the count *)
C35_CountIsSavedIsPowered ==
    /\ [](crashed = "no"
            => /\ level_completion.powered_pylons_count + climber_events = Cardinality(Saved)
               /\ Cardinality(Powered) = Cardinality(Saved)
               /\ climber_events = 0
                    => level_completion.powered_pylons_count = Cardinality(Saved))
    /\ [][/\ last'.op = "update_climbers"
            => /\ climber_events' - climber_events = Cardinality(Saved' \ Saved)
               /\ level_completion' = level_completion
          /\ (last'.op = "climber_event_handler" /\ crashed' = "no")
            => /\ level_completion'.powered_pylons_count
                    = level_completion.powered_pylons_count + climber_events
               /\ climber_events' = 0
               /\ Saved' = Saved /\ Powered' = Powered]_vars

(* climber_event_handler has just handled the event of the second climber
   saved in the level *)
C35_Witness ==
    /\ last.op = "climber_event_handler"
    /\ crashed = "no"
    /\ climber_events = 0
    /\ level_completion.powered_pylons_count = 2
    /\ Cardinality(Saved) = 2
    /\ Cardinality(Powered) = 2

----------------------------------------------------------------------------
(* C36: within a level, a climber that starts a move was Waiting on (i,j)
   and moves to row j+1 and column i+1 or i-1 of the same face; no step
   changes a climber's face or pillar, the face is one of its pillar, the
   tracked tile changes only by a started move or a landing, and the row
   decreases only by a landing of a Falling climber *)
C36_MovesAreDiagonal ==
    /\ [](\A c \in DOMAIN climbers : climbers[c].face[1] = climbers[c].current_pillar)
    /\ [][\A c \in DOMAIN climbers :
            LET cl == climbers[c]
                started == cl.state # "Moving" /\ climbers'[c].state = "Moving"
                landed == cl.state = "Falling" /\ climbers'[c].state = "Waiting"
            IN  last'.op # "spawn_level"
                    => /\ climbers'[c].face = cl.face
                       /\ climbers'[c].current_pillar = cl.current_pillar
                       /\ started => /\ cl.state = "Waiting"
                                     /\ last'.op = "update_climbers"
                                     /\ climbers'[c].j = cl.j + 1
                                     /\ climbers'[c].i \in {cl.i + 1, cl.i - 1}
                       /\ TileOf(climbers'[c]) # TileOf(cl) => started \/ landed
                       /\ climbers'[c].j < cl.j => landed]_vars

(* A climber has just started its first move, to column i-1 of the next row *)
C36_Witness ==
    \E c \in DOMAIN climbers :
        /\ last.op = "update_climbers"
        /\ climbers[c].state = "Moving" /\ ~climbers[c].progress_done
        /\ climbers[c].i = SpawnTile(c)[1] - 1
        /\ climbers[c].j = SpawnTile(c)[2] + 1
        /\ climbers[c].translation.y = SpawnTile(c)[2] * TILE_SIZE + HALF_TILE_SIZE
                + HALF_ROD_WIDTH + CLIMBER_RADIUS + CLIMBER_LEVITATE_DISTANCE

----------------------------------------------------------------------------
(* The climbers that go from Falling to Dead in the step *)
Dying == {c \in DOMAIN climbers :
            climbers[c].state = "Falling" /\ climbers'[c].state = "Dead"}

(* C37: a step in which the game phase becomes Lost, or in which
   next_state.set(Lost) is called for a climber, is a run of update_climbers
   in which that climber, or some climber, goes from Falling to Dead; after
   any other step the phase is what it was unless the step sets Won or loads
   a level *)
C37_LostOnlyByDeath ==
    [][last'.op # "spawn_level"
        => /\ (game_state' = "Lost" /\ game_state # "Lost")
                => last'.op = "update_climbers" /\ Dying # {}
           /\ \A c \in DOMAIN climbers :
                climbers'[c].lost_signals # climbers[c].lost_signals
                    => /\ last'.op = "update_climbers"
                       /\ c \in Dying
                       /\ game_state' = "Lost"
           /\ (last'.op = "update_climbers" /\ Dying = {}) => game_state' = game_state
           /\ last'.op \in {"click", "rod_done", "climber_done"} => game_state' = game_state]_vars

(* A run of update_climbers has just set Lost for a climber that died while
   another climber of the level is Waiting or Moving *)
C37_Witness ==
    \E c, d \in DOMAIN climbers :
        /\ last.op = "update_climbers"
        /\ game_state = "Lost"
        /\ climbers[c].state = "Dead" /\ climbers[c].lost_signals = 1
        /\ climbers[d].state \in {"Waiting", "Moving"}
        /\ update_climbers(ClimberSystemState, 1) = ClimberSystemState

----------------------------------------------------------------------------
(* The rods as spawn_level created them for the current level *)
LoadedRods == spawned_levels[current_level_idx(level_name)].rods

(* C38: in every reachable state, the cell at a movable rod's coordinate
   holds MovableRod on the rod's recorded face and not on its recorded
   opposite face, the opposite face is the face of the opposite direction of
   the same pillar, the two differ, and the coordinate is the one the rod was
   spawned with, which no step within a level changes *)
C38_RodReferences ==
    /\ [](\A r \in DOMAIN rods :
            LET rod == rods[r]
            IN  /\ CellAt(rod.face, rod.position).kind = "MovableRod"
                /\ CellAt(rod.opposite_face, rod.position).kind # "MovableRod"
                /\ rod.opposite_face = <<rod.face[1], get_opposite(rod.face[2])>>
                /\ rod.face # rod.opposite_face
                /\ rod.position = LoadedRods[r].position
                /\ {rod.face, rod.opposite_face}
                        = {LoadedRods[r].face, LoadedRods[r].opposite_face})
    /\ [][last'.op # "spawn_level"
            => \A r \in DOMAIN rods : rods'[r].position = rods[r].position]_vars

(* A rod that was toggled an odd number of times has just been clicked while
   in flight *)
C38_Witness ==
    \E r \in DOMAIN rods :
        /\ last.op = "click" /\ last.id = r /\ ~last.accepted
        /\ rods[r].face = LoadedRods[r].opposite_face
        /\ rods[r].opposite_face = LoadedRods[r].face
        /\ CellAt(rods[r].face, rods[r].position).kind = "MovableRod"

----------------------------------------------------------------------------
(* C39: in every reachable state, a tile that has ground and that a climber
   is Waiting on or Moving to is marked occupied *)
C39_GroundUnderClimberOccupied ==
    \A c \in DOMAIN climbers :
        (OnTile(c) /\ has_ground_on_tile(faces[climbers[c].face], climbers[c].i, climbers[c].j))
            => CellAt(climbers[c].face, TileOf(climbers[c])).occupied

====
